---- MODULE Spec2Model ----
(***************************************************************************)
(* Model of the DOM-automation core of the YouTube/Gemini summarizer       *)
(* extension: SmartElementWaiter (content-scripts/smart-waiter.js),        *)
(* ActionSequencer (content-scripts/action-sequencer.js), the video        *)
(* finder and the mark-as-watched script (video-automation.js), the id     *)
(* extraction of url-utils.js and the tables of automation-config.js.      *)
(*                                                                         *)
(* The browser's event loop is modelled one task per action: a timer       *)
(* callback, a MutationObserver callback or a call from outside runs to    *)
(* completion together with the promise continuations (microtasks) it      *)
(* triggers.  Timers carry their delay as data; scheduled timers may fire  *)
(* in any order.                                                           *)
(*                                                                         *)
(* An options object is a record holding only the keys the caller gave, so *)
(* `k \in DOMAIN o` is "o.k !== undefined".                                *)
(***************************************************************************)
EXTENDS Integers, Sequences, FiniteSets, TLC

\* ------------------------------------------------------------------ bounds
MaxRetriesOpt == 2
MaxSteps == 2

\* ------------------------------------------------------- program constants
elementWait == 5000
DefaultTimeout == 5000
maxRetriesCfg == 3
DefaultMaxRetries == 3
TimeoutCap == 10000
PollFirst == 100
PollEvery == 250
actionDelayCfg == 100
DefaultActionDelay == 100
DefaultDelayAfter == 200
usePolling == TRUE
useMutationObserver == TRUE

Null == 0
\* The outcome of a call that ended with an exception.
Thrown == -1

\* ------------------------------------------------------------- the page
\* Text is a sequence of one-character strings.
UpperCase ==
    <<"A", "B", "C", "D", "E", "F", "G", "H", "I", "J", "K", "L", "M", "N",
      "O", "P", "Q", "R", "S", "T", "U", "V", "W", "X", "Y", "Z">>
LowerCase ==
    <<"a", "b", "c", "d", "e", "f", "g", "h", "i", "j", "k", "l", "m", "n",
      "o", "p", "q", "r", "s", "t", "u", "v", "w", "x", "y", "z">>

ToLowerChar(c) ==
    IF \E i \in 1..Len(UpperCase) : UpperCase[i] = c
    THEN LowerCase[CHOOSE i \in 1..Len(UpperCase) : UpperCase[i] = c]
    ELSE c

toLowerCase(t) == [k \in 1..Len(t) |-> ToLowerChar(t[k])]

includes(t, p) ==
    \E k \in 0..(Len(t) - Len(p)) : \A j \in 1..Len(p) : t[k + j] = p[j]

\* An element: the selectors it matches, its box, its computed style, its
\* disabled state and its text.
El(id, sels, w, disp, dis, txt) ==
    [id |-> id, sels |-> sels, width |-> w, height |-> 10, display |-> disp,
     visibility |-> "visible", opacity |-> "1", disabled |-> dis,
     ariaDisabled |-> "false", textContent |-> txt]

TxtOk == <<"O", "k">>

MalformedSelectors == {"bad["}

\* Pages the uncontrolled UI can show, elements in document order.
PageEmpty == <<>>
PageHidden == <<El(1, {"a"}, 10, "none", FALSE, TxtOk)>>
PageShown == <<El(1, {"a"}, 10, "block", FALSE, TxtOk)>>
Pages == {PageEmpty, PageHidden, PageShown}

\* ------------------------------------------------------------- Locator
Has(o, k) == k \in DOMAIN o

\* Mutant: a disabled element is rejected whether or not the check was asked for.
validateElementAlwaysInteractable(element, config) ==
    IF config.validateVisibility
         /\ (element.width = 0 \/ element.height = 0
             \/ element.display = "none"
             \/ element.visibility = "hidden"
             \/ element.opacity = "0")
    THEN FALSE
    ELSE IF element.disabled \/ element.ariaDisabled = "true"
    THEN FALSE
    ELSE IF Has(config, "textPattern")
              /\ ~ \E k \in 1..Len(config.textPattern) :
                     includes(toLowerCase(element.textContent),
                              toLowerCase(config.textPattern[k]))
    THEN FALSE
    ELSE TRUE

\* The element is never null here (querySelectorAll yields elements), and
\* the innerText of an element whose textContent is empty has no letters.
validateElement(element, config) ==
    IF config.validateVisibility
         /\ (element.width = 0 \/ element.height = 0
             \/ element.display = "none"
             \/ element.visibility = "hidden"
             \/ element.opacity = "0")
    THEN FALSE
    ELSE IF config.validateInteractable
              /\ (element.disabled \/ element.ariaDisabled = "true")
    THEN FALSE
    ELSE IF Has(config, "textPattern")
              /\ ~ \E k \in 1..Len(config.textPattern) :
                     includes(toLowerCase(element.textContent),
                              toLowerCase(config.textPattern[k]))
    THEN FALSE
    ELSE TRUE

\* Mutant: the matches come last first.
querySelectorAllReversed(page, selector) ==
    LET m == SelectSeq(page, LAMBDA e : selector \in e.sels)
    IN [k \in 1..Len(m) |-> m[Len(m) + 1 - k]]

\* document.querySelectorAll(selector): the matches in document order; a
\* malformed selector throws (the caller catches it).
querySelectorAll(page, selector) ==
    SelectSeq(page, LAMBDA e : selector \in e.sels)

\* Mutant: the first match is taken without validation.
FirstValidUnchecked(elements, config) ==
    IF elements = <<>> THEN Null ELSE Head(elements).id

RECURSIVE FirstValid(_, _)
FirstValid(elements, config) ==
    IF elements = <<>> THEN Null
    ELSE IF validateElement(Head(elements), config) THEN Head(elements).id
    ELSE FirstValid(Tail(elements), config)

\* Mutant: no try/catch around the lookup, the SyntaxError of a malformed
\* selector leaves findBestElement.
TrySelectorNoCatch(page, selector, config) ==
    IF selector \in MalformedSelectors THEN Thrown
    ELSE FirstValid(querySelectorAll(page, selector), config)

\* The try block for one selector: the first valid match, or nothing when
\* querySelectorAll throws (caught and logged).
TrySelector(page, selector, config) ==
    IF selector \in MalformedSelectors THEN Null
    ELSE FirstValid(querySelectorAll(page, selector), config)

\* The loop over the selectors; an exception that is not caught ends it.
RECURSIVE findBestElement(_, _, _)
findBestElement(page, selectors, config) ==
    IF selectors = <<>> THEN Null
    ELSE LET found == TrySelector(page, Head(selectors), config)
         IN IF found # Null THEN found
            ELSE findBestElement(page, Tail(selectors), config)

\* -------------------------------------------------------------- Waiter
\* o.k || d for a number, o.k || d for a boolean
OrNum(o, k, d) == IF Has(o, k) /\ o[k] # 0 THEN o[k] ELSE d
OrBool(o, k, d) == IF Has(o, k) /\ o[k] THEN TRUE ELSE d

\* config.textPattern is null (no key here) unless options gives a pattern list.
BuildConfig(options) ==
    LET base ==
          [timeout |-> OrNum(options, "timeout",
                             IF elementWait # 0 THEN elementWait ELSE DefaultTimeout),
           validateVisibility |-> ~(Has(options, "validateVisibility")
                                    /\ options.validateVisibility = FALSE),
           validateInteractable |-> OrBool(options, "validateInteractable", FALSE),
           retryCount |-> OrNum(options, "retryCount", 0),
           maxRetries |-> OrNum(options, "maxRetries",
                                IF maxRetriesCfg # 0 THEN maxRetriesCfg
                                ELSE DefaultMaxRetries)]
    IN IF Has(options, "textPattern")
       THEN [k \in DOMAIN base \cup {"textPattern"} |->
               IF k = "textPattern" THEN options.textPattern ELSE base[k]]
       ELSE base

selectorArray(selectors) ==
    IF selectors.isArray THEN selectors.items ELSE <<selectors.items>>

\* Mutant: the scaled timeout is not capped.
ScaleTimeoutUncapped(timeout) == (timeout * 3) \div 2

\* Math.min(config.timeout * 1.5, 10000); the timeouts of the model are
\* chosen so that every product below the cap is a whole number.
ScaleTimeout(timeout) ==
    IF (timeout * 3) \div 2 < TimeoutCap THEN (timeout * 3) \div 2 ELSE TimeoutCap

\* Mutant: the retry is handed 1.5 x the timeout without the cap.
RetryOptionsNoCap(options, config) ==
    [k \in DOMAIN options \cup {"retryCount", "timeout"} |->
        IF k = "retryCount" THEN config.retryCount + 1
        ELSE IF k = "timeout" THEN (config.timeout * 3) \div 2
        ELSE options[k]]

RetryOptions(options, config) ==
    [k \in DOMAIN options \cup {"retryCount", "timeout"} |->
        IF k = "retryCount" THEN config.retryCount + 1
        ELSE IF k = "timeout" THEN ScaleTimeout(config.timeout)
        ELSE options[k]]

NoError == [text |-> "", n |-> 0, selectors |-> <<>>]
NotFoundError(config, sels) ==
    [text |-> "Element not found after", n |-> config.maxRetries, selectors |-> sels]

\* resolve(v) or reject(e) of the promise of attempt a is called.  A settled
\* promise ignores the call; a retry's promise, once settled, calls the
\* resolve or reject of the attempt that started it (.then(resolve).catch(reject)).
RECURSIVE Settle(_, _, _, _, _)
Settle(atts, a, how, v, e) ==
    LET wasPending == atts[a].promise = "pending"
        atts1 == [atts EXCEPT ![a].settleCalls = @ + 1,
                              ![a].promise = IF wasPending THEN how ELSE @,
                              ![a].value = IF wasPending THEN v ELSE @,
                              ![a].error = IF wasPending THEN e ELSE @]
    IN IF wasPending /\ atts[a].parent # 0
       THEN Settle(atts1, atts[a].parent, how, v, e)
       ELSE atts1

TimeoutTimer(a, ms) == [kind |-> "timeout", id |-> a, ms |-> ms]
PollTimer(a, ms) == [kind |-> "poll", id |-> a, ms |-> ms]

\* Mutant: the timeout is set up before the immediate check and is left
\* behind when the check succeeds.
waitForElementTimerFirst(s, selectors, options, parent, owner) ==
    LET config == BuildConfig(options)
        a == Len(s.attempts) + 1
        immediateElement == findBestElement(s.dom, selectorArray(selectors), config)
        fresh == [parent |-> parent, owner |-> owner, selectors |-> selectors,
                  options |-> options, config |-> config,
                  resolved |-> FALSE, effects |-> <<>>,
                  observer |-> "none",
                  promise |-> "pending", value |-> Null, error |-> NoError,
                  settleCalls |-> 0]
    IN IF immediateElement # Null
       THEN [s EXCEPT !.attempts =
               Settle(Append(s.attempts,
                             [fresh EXCEPT !.resolved = TRUE,
                                           !.effects = <<"immediate">>]),
                      a, "fulfilled", immediateElement, NoError),
             !.timers = s.timers \cup {TimeoutTimer(a, config.timeout)}]
       ELSE [s EXCEPT !.attempts =
               Append(s.attempts, [fresh EXCEPT !.observer = "connected"]),
             !.timers = s.timers \cup {TimeoutTimer(a, config.timeout),
                                       PollTimer(a, PollFirst)}]

\* One invocation of waitForElement (an attempt), run up to the end of the
\* promise executor.  parent is the attempt whose timeout started this one
\* (0 for a call from outside), owner the sequence step waiting (0: none).
waitForElement(s, selectors, options, parent, owner) ==
    LET config == BuildConfig(options)
        sels == selectorArray(selectors)
        a == Len(s.attempts) + 1
        immediateElement == findBestElement(s.dom, sels, config)
        fresh == [parent |-> parent, owner |-> owner, selectors |-> selectors,
                  options |-> options, config |-> config,
                  resolved |-> FALSE, effects |-> <<>>,
                  observer |-> "none",
                  promise |-> "pending", value |-> Null, error |-> NoError,
                  settleCalls |-> 0]
    IN IF immediateElement # Null
       THEN [s EXCEPT !.attempts =
               Settle(Append(s.attempts,
                             [fresh EXCEPT !.resolved = TRUE,
                                           !.effects = <<"immediate">>]),
                      a, "fulfilled", immediateElement, NoError)]
       ELSE [s EXCEPT !.attempts =
               Append(s.attempts,
                      [fresh EXCEPT !.observer = IF useMutationObserver
                                                 THEN "connected" ELSE "none"]),
             !.timers = s.timers \cup {TimeoutTimer(a, config.timeout)}
                        \cup (IF usePolling THEN {PollTimer(a, PollFirst)} ELSE {})]

\* observer?.disconnect()
Disconnect(att) ==
    IF att.observer = "connected"
    THEN [att EXCEPT !.observer = "disconnected"]
    ELSE att

\* Mutant: the retry test is <= instead of <.
TimeoutCallbackOneMore(s, a) ==
    LET att == s.attempts[a]
        s1 == [s EXCEPT !.timers = s.timers \ {TimeoutTimer(a, att.config.timeout)},
                        !.attempts[a] =
                          [Disconnect(att) EXCEPT !.resolved = TRUE,
                                                  !.effects = Append(@, "timeout")]]
    IN IF att.config.retryCount <= att.config.maxRetries
       THEN waitForElement(s1, att.selectors,
                           RetryOptions(att.options, att.config), a, att.owner)
       ELSE [s1 EXCEPT !.attempts =
               Settle(s1.attempts, a, "rejected", Null,
                      NotFoundError(att.config, selectorArray(att.selectors)))]

\* Mutant: the timeout callback forgets to disconnect the observer.
TimeoutCallbackKeepsObserver(s, a) ==
    LET att == s.attempts[a]
        s1 == [s EXCEPT !.timers = s.timers \ {TimeoutTimer(a, att.config.timeout)},
                        !.attempts[a] =
                          [att EXCEPT !.resolved = TRUE,
                                      !.effects = Append(@, "timeout")]]
    IN IF att.config.retryCount < att.config.maxRetries
       THEN waitForElement(s1, att.selectors,
                           RetryOptions(att.options, att.config), a, att.owner)
       ELSE [s1 EXCEPT !.attempts =
               Settle(s1.attempts, a, "rejected", Null,
                      NotFoundError(att.config, selectorArray(att.selectors)))]

\* The setTimeout callback of attempt a (smart-waiter.js 39-60).
TimeoutCallback(s, a) ==
    LET att == s.attempts[a]
        s0 == [s EXCEPT !.timers = s.timers \ {TimeoutTimer(a, att.config.timeout)}]
    IN IF att.resolved THEN s0
       ELSE LET s1 == [s0 EXCEPT !.attempts[a] =
                         [Disconnect(att) EXCEPT !.resolved = TRUE,
                                                 !.effects = Append(@, "timeout")]]
            IN IF att.config.retryCount < att.config.maxRetries
               THEN waitForElement(s1, att.selectors,
                                   RetryOptions(att.options, att.config), a, att.owner)
               ELSE [s1 EXCEPT !.attempts =
                       Settle(s1.attempts, a, "rejected", Null,
                              NotFoundError(att.config, selectorArray(att.selectors)))]

\* Mutant: the winner does not clear the timeout.
FoundKeepsTimeout(s, a, path, element) ==
    LET atts1 == [s.attempts EXCEPT ![a] =
                    [Disconnect(s.attempts[a]) EXCEPT !.resolved = TRUE,
                                                      !.effects = Append(@, path)]]
    IN [s EXCEPT !.attempts = Settle(atts1, a, "fulfilled", element, NoError)]

\* Found by the observer or by a poll: take the result, clear the timeout,
\* disconnect the observer, resolve.
Found(s, a, path, element) ==
    LET att == s.attempts[a]
        atts1 == [s.attempts EXCEPT ![a] =
                    [Disconnect(att) EXCEPT !.resolved = TRUE,
                                            !.effects = Append(@, path)]]
    IN [s EXCEPT !.timers = s.timers \ {TimeoutTimer(a, att.config.timeout)},
                 !.attempts = Settle(atts1, a, "fulfilled", element, NoError)]

\* The MutationObserver callback of attempt a (smart-waiter.js 66-76).
MutationCallback(s, a) ==
    LET att == s.attempts[a]
        element == findBestElement(s.dom, selectorArray(att.selectors), att.config)
    IN IF att.resolved THEN s
       ELSE IF element # Null THEN Found(s, a, "mutation", element)
       ELSE s

\* The browser delivers the mutation records: the callback of every
\* connected observer runs, in the order the observers were created, before
\* any other task.
RECURSIVE NotifyObservers(_, _)
NotifyObservers(s, a) ==
    IF a > Len(s.attempts) THEN s
    ELSE NotifyObservers(IF s.attempts[a].observer = "connected"
                         THEN MutationCallback(s, a) ELSE s,
                         a + 1)

\* Mutant: poll() does not test the resolved flag.
PollCallbackUnguarded(s, a, t) ==
    LET s0 == [s EXCEPT !.timers = s.timers \ {t}]
        element == findBestElement(s.dom, selectorArray(s.attempts[a].selectors),
                                   s.attempts[a].config)
    IN IF element # Null THEN Found(s0, a, "poll", element)
       ELSE [s0 EXCEPT !.timers = s0.timers \cup {PollTimer(a, PollEvery)}]

\* poll() of attempt a, run by its timer t (smart-waiter.js 89-101).
PollCallback(s, a, t) ==
    LET att == s.attempts[a]
        s0 == [s EXCEPT !.timers = s.timers \ {t}]
        element == findBestElement(s.dom, selectorArray(att.selectors), att.config)
    IN IF att.resolved THEN s0
       ELSE IF element # Null THEN Found(s0, a, "poll", element)
       ELSE [s0 EXCEPT !.timers = s0.timers \cup {PollTimer(a, PollEvery)}]

\* ----------------------------------------------------------- Sequencer
\* probe is a function of the Locator or of the video finder applied to
\* given arguments; request is a mark-as-watched request.
\* ctx is the channel between the right-click detection of the content
\* script and the context menu of the background script; run2 is the
\* automation run of a second mark-as-watched request.
VARIABLES dom, pages, timers, attempts, steps, seq, trace, call, probe, request,
          ctx, run2, inj, opts

vars == <<dom, pages, timers, attempts, steps, seq, trace, call, probe, request,
          ctx, run2, inj, opts>>

Ev(ev, i, ms) == [ev |-> ev, step |-> i, ms |-> ms]

ActionError == [text |-> "action threw", n |-> 0, selectors |-> <<>>]

DelayTimer(kind, i, ms) == [kind |-> kind, id |-> i, ms |-> ms]

\* await this.delay(actionDelay) of step i, holding the element found.
AwaitActionDelay(s, i, element) ==
    LET ms == IF actionDelayCfg # 0 THEN actionDelayCfg ELSE DefaultActionDelay
    IN [s EXCEPT !.timers = s.timers \cup {DelayTimer("actionDelay", i, ms)},
                 !.seq = [s.seq EXCEPT !.pc = "actionDelay", !.i = i,
                                       !.element = element, !.wait = 0],
                 !.trace = Append(s.trace, Ev("actionDelay", i, ms))]

\* Mutant: the loop bound is off by one, the last step is never run.
StartStepSkipsLast(s, i) ==
    IF i >= Len(steps)
    THEN [s EXCEPT !.seq = [s.seq EXCEPT !.pc = "done", !.i = i, !.wait = 0,
                                         !.result = "true"]]
    ELSE AwaitActionDelay([s EXCEPT !.trace = Append(s.trace, Ev("start", i, 0))],
                          i, 1)

\* Mutant: step.element is ignored, the Waiter is called for every step
\* (a step without selectors passes undefined, which matches nothing).
StartStepAlwaysWaits(s, i) ==
    IF i > Len(steps)
    THEN [s EXCEPT !.seq = [s.seq EXCEPT !.pc = "done", !.i = i, !.wait = 0,
                                         !.result = "true"]]
    ELSE LET step == steps[i]
             a == Len(s.attempts) + 1
             s1 == waitForElement(
                     [s EXCEPT !.trace = s.trace \o <<Ev("start", i, 0),
                                                       Ev("wait", i, 0)>>],
                     IF Has(step, "selectors") THEN step.selectors
                     ELSE [isArray |-> FALSE, items |-> "undefined"],
                     IF Has(step, "options") THEN step.options ELSE <<>>,
                     0, i)
         IN IF s1.attempts[a].promise = "fulfilled"
            THEN AwaitActionDelay(s1, i, s1.attempts[a].value)
            ELSE [s1 EXCEPT !.seq = [s1.seq EXCEPT !.pc = "waiting",
                                                   !.i = i, !.wait = a]]

\* The head of the for loop at index i (action-sequencer.js 19-29): past
\* the last step the sequence returns true; a step with an element goes
\* straight to the pacing delay, any other step calls the Waiter.
StartStep(s, i) ==
    IF i > Len(steps)
    THEN [s EXCEPT !.seq = [s.seq EXCEPT !.pc = "done", !.i = i, !.wait = 0,
                                         !.result = "true"]]
    ELSE LET step == steps[i]
             s0 == [s EXCEPT !.trace = Append(s.trace, Ev("start", i, 0))]
         IN IF Has(step, "element") /\ step.element # Null
            THEN AwaitActionDelay(s0, i, step.element)
            ELSE LET a == Len(s0.attempts) + 1
                     s1 == waitForElement(
                             [s0 EXCEPT !.trace = Append(s0.trace, Ev("wait", i, 0))],
                             step.selectors,
                             IF Has(step, "options") THEN step.options ELSE <<>>,
                             0, i)
                 IN IF s1.attempts[a].promise = "fulfilled"
                    THEN AwaitActionDelay(s1, i, s1.attempts[a].value)
                    ELSE [s1 EXCEPT !.seq = [s1.seq EXCEPT !.pc = "waiting",
                                                           !.i = i, !.wait = a]]

\* Mutant: the catch block skips every failed step, required or not.
CatchStepAlwaysSkips(s, i, error) ==
    StartStep([s EXCEPT !.trace = Append(s.trace, Ev("failed", i, 0))], i + 1)

\* Mutant: the catch block aborts on every failed step, optional or not.
CatchStepAlwaysAborts(s, i, error) ==
    [s EXCEPT !.trace = Append(s.trace, Ev("failed", i, 0)),
              !.seq = [s.seq EXCEPT !.pc = "done", !.wait = 0,
                                    !.result = "rejected",
                                    !.error = [name |-> steps[i].name,
                                               cause |-> error]]]

\* The catch block (action-sequencer.js 49-57).
CatchStep(s, i, error) ==
    LET s1 == [s EXCEPT !.trace = Append(s.trace, Ev("failed", i, 0))]
    IN IF ~(Has(steps[i], "required") /\ steps[i].required = FALSE)
       THEN [s1 EXCEPT !.seq = [s1.seq EXCEPT !.pc = "done", !.wait = 0,
                                              !.result = "rejected",
                                              !.error = [name |-> steps[i].name,
                                                         cause |-> error]]]
       ELSE StartStep(s1, i + 1)

\* The continuation of `await waitForElement(...)` once the promise of the
\* step's call has settled.
Resume(s) ==
    IF s.seq.pc = "waiting" /\ s.attempts[s.seq.wait].promise # "pending"
    THEN LET w == s.attempts[s.seq.wait]
         IN IF w.promise = "fulfilled"
            THEN AwaitActionDelay(s, s.seq.i, w.value)
            ELSE CatchStep(s, s.seq.i, w.error)
    ELSE s

\* Mutant: the next step starts right after the action, without the pause.
RunActionNoPause(s, i) ==
    LET s1 == [s EXCEPT !.trace = Append(s.trace, Ev("action", i, 0))]
    IN IF Has(steps[i], "action") /\ steps[i].action = "throws"
       THEN CatchStep(s1, i, ActionError)
       ELSE StartStep(s1, i + 1)

\* After the pacing delay: the action or the default click, then the pause
\* before the next step (action-sequencer.js 35-47).
RunAction(s, i) ==
    LET step == steps[i]
        s1 == [s EXCEPT !.trace = Append(s.trace, Ev("action", i, 0))]
    IN IF Has(step, "action") /\ step.action = "throws"
       THEN CatchStep(s1, i, ActionError)
       ELSE IF i < Len(steps)
            THEN LET ms == OrNum(step, "delayAfter", DefaultDelayAfter)
                 IN [s1 EXCEPT !.timers = s1.timers \cup {DelayTimer("delayAfter", i, ms)},
                               !.seq = [s1.seq EXCEPT !.pc = "delayAfter"],
                               !.trace = Append(s1.trace, Ev("delayAfter", i, ms))]
            ELSE StartStep(s1, i + 1)

\* ------------------------------------------------------------- actions
Cur == [dom |-> dom, timers |-> timers, attempts |-> attempts, seq |-> seq,
        trace |-> trace]

Set(r) ==
    /\ dom' = r.dom
    /\ timers' = r.timers
    /\ attempts' = r.attempts
    /\ seq' = r.seq
    /\ trace' = r.trace

\* A call of waitForElement from outside the Sequencer.
CallWaitForElement ==
    /\ call.state = "idle"
    /\ Set(waitForElement(Cur, call.selectors, call.options, 0, 0))
    /\ call' = [call EXCEPT !.state = "called"]
    /\ UNCHANGED <<steps, pages, probe, request, ctx, run2,
                   inj, opts>>

\* executeSequence(steps, videoId) is called.
ExecuteSequence ==
    /\ seq.pc = "idle"
    /\ Set(StartStep(Cur, 1))
    /\ UNCHANGED <<steps, call, pages, probe, request, ctx, run2,
                   inj, opts>>

TimeoutFire ==
    \E t \in timers :
        /\ t.kind = "timeout"
        /\ Set(Resume(TimeoutCallback(Cur, t.id)))
        /\ UNCHANGED <<steps, call, pages, probe, request, ctx, run2,
                   inj, opts>>

PollTick ==
    \E t \in timers :
        /\ t.kind = "poll"
        /\ Set(Resume(PollCallback(Cur, t.id, t)))
        /\ UNCHANGED <<steps, call, pages, probe, request, ctx, run2,
                   inj, opts>>

\* The page changes under the extension in a way the observers are
\* subscribed to (child list, style, class, hidden): their callbacks run at
\* the end of the task that made the change.
DomMutateObserved ==
    \E p \in pages \ {dom} :
        /\ Set(Resume(NotifyObservers([Cur EXCEPT !.dom = p], 1)))
        /\ UNCHANGED <<steps, call, pages, probe, request, ctx, run2,
                   inj, opts>>

\* The page changes in a way no observer is told of (a stylesheet, the
\* disabled state, character data).
DomMutateSilent ==
    \E p \in pages \ {dom} :
        /\ dom' = p
        /\ UNCHANGED <<timers, attempts, steps, seq, trace, call, pages, probe,
                       request, ctx, run2,
                   inj, opts>>

ActionDelayFire ==
    \E t \in timers :
        /\ t.kind = "actionDelay"
        /\ Set(RunAction([Cur EXCEPT !.timers = timers \ {t}], t.id))
        /\ UNCHANGED <<steps, call, pages, probe, request, ctx, run2,
                   inj, opts>>

DelayAfterFire ==
    \E t \in timers :
        /\ t.kind = "delayAfter"
        /\ Set(StartStep([Cur EXCEPT !.timers = timers \ {t},
                                     !.trace = Append(trace, Ev("delayDone", t.id, t.ms))],
                         t.id + 1))
        /\ UNCHANGED <<steps, call, pages, probe, request, ctx, run2,
                   inj, opts>>

\* ------------------------------------------------------ specifications
IdleSeq == [pc |-> "idle", i |-> 0, wait |-> 0, element |-> Null,
            result |-> "none", error |-> [name |-> "", cause |-> NoError]]

SelA == [isArray |-> TRUE, items |-> <<"a">>]

\* The steps a caller may pass: the menu-button step with its element
\* supplied, and steps that wait for an element: one clicked by default,
\* one whose action throws, one optional whose action throws.
StepTemplates ==
    { [name |-> "menu", element |-> 1, action |-> "ok",
       options |-> [validateVisibility |-> FALSE]],
      [name |-> "click", selectors |-> SelA, options |-> [maxRetries |-> 1],
       required |-> TRUE, delayAfter |-> 300],
      [name |-> "throw", selectors |-> SelA, options |-> [maxRetries |-> 1],
       action |-> "throws"],
      [name |-> "optThrow", selectors |-> SelA, options |-> [maxRetries |-> 1],
       action |-> "throws", required |-> FALSE] }

RECURSIVE SeqsUpTo(_, _)
SeqsUpTo(S, n) ==
    IF n = 0 THEN {<<>>}
    ELSE LET shorter == SeqsUpTo(S, n - 1)
         IN shorter \cup {Append(q, x) : q \in shorter, x \in S}

NoCall == [state |-> "none", selectors |-> SelA, options |-> <<>>]
NoProbe == [fn |-> "none"]
NoReq == [state |-> "none"]
NoCtx == [state |-> "none"]
NoRun == [state |-> "none"]
NoInj == [state |-> "none"]
NoOpts == [state |-> "none"]

Init ==
    /\ pages = {PageEmpty, PageShown}
    /\ dom \in pages
    /\ timers = {}
    /\ attempts = <<>>
    /\ steps \in SeqsUpTo(StepTemplates, MaxSteps)
    /\ seq = IdleSeq
    /\ trace = <<>>
    /\ call = NoCall
    /\ probe = NoProbe
    /\ request = NoReq
    /\ ctx = NoCtx
    /\ run2 = NoRun
    /\ inj = NoInj
    /\ opts = NoOpts

Next ==
    \/ ExecuteSequence
    \/ TimeoutFire
    \/ PollTick
    \/ DomMutateObserved
    \/ DomMutateSilent
    \/ ActionDelayFire
    \/ DelayAfterFire

Spec == Init /\ [][Next]_vars

\* The arguments a direct caller may pass: each option given or left out
\* (a set with at most one value), the selectors as a list or a bare string.
TimeoutValues == {0, 4000, 12000}
MaxRetriesValues == 0..MaxRetriesOpt
RetryCountValues == {1}
Maybe(S) == {{}} \cup {{x} : x \in S}

MkOptions(t, m, r, vis) ==
    LET keys == (IF t = {} THEN {} ELSE {"timeout"})
                \cup (IF m = {} THEN {} ELSE {"maxRetries"})
                \cup (IF r = {} THEN {} ELSE {"retryCount"})
                \cup (IF vis = {} THEN {} ELSE {"validateVisibility"})
    IN [k \in keys |->
          CASE k = "timeout" -> CHOOSE x \in t : TRUE
            [] k = "maxRetries" -> CHOOSE x \in m : TRUE
            [] k = "retryCount" -> CHOOSE x \in r : TRUE
            [] OTHER -> CHOOSE x \in vis : TRUE]

CallOptions ==
    { MkOptions(t, m, r, vis) :
        t \in Maybe(TimeoutValues), m \in Maybe(MaxRetriesValues),
        r \in Maybe(RetryCountValues), vis \in Maybe({FALSE}) }

CallSelectors ==
    { [isArray |-> TRUE, items |-> <<"bad[", "a">>],
      [isArray |-> FALSE, items |-> "a"] }

WaiterInit ==
    /\ pages = Pages
    /\ dom \in {PageEmpty, PageShown}
    /\ timers = {}
    /\ attempts = <<>>
    /\ steps = <<>>
    /\ seq = IdleSeq
    /\ trace = <<>>
    /\ call \in { [state |-> "idle", selectors |-> sel, options |-> o] :
                    sel \in CallSelectors, o \in CallOptions }
    /\ probe = NoProbe
    /\ request = NoReq
    /\ ctx = NoCtx
    /\ run2 = NoRun
    /\ inj = NoInj
    /\ opts = NoOpts

WaiterNext ==
    \/ CallWaitForElement
    \/ TimeoutFire
    \/ PollTick
    \/ DomMutateObserved
    \/ DomMutateSilent

WaiterSpec == WaiterInit /\ [][WaiterNext]_vars

TypeOK == /\ dom \in pages
          /\ seq.pc \in {"idle", "waiting", "actionDelay", "delayAfter", "done"}

\* --------------------------------------------------- reading the state
Required(i) == ~(Has(steps[i], "required") /\ steps[i].required = FALSE)

IsAttemptEv(e) == e.ev = "start"

\* The call from outside that attempt a retries for.
RECURSIVE Root(_)
Root(a) == IF attempts[a].parent = 0 THEN a ELSE Root(attempts[a].parent)

Tops == {a \in 1..Len(attempts) : attempts[a].parent = 0}
Chain(r) == {a \in 1..Len(attempts) : Root(a) = r}
TimersOf(a, kind) == {t \in timers : t.kind = kind /\ t.id = a}

\* The error the failing step of the event trace[k] was caught with.
CauseAt(k) ==
    LET i == trace[k].step
    IN IF k > 1 /\ trace[k - 1] = Ev("action", i, 0)
       THEN ActionError
       ELSE attempts[CHOOSE a \in Tops : attempts[a].owner = i].error

\* ---------------------------------------------------------------- C1
\* C1: when a step whose `required` is not false fails, the sequence ends
\* there: the promise is rejected with an error that carries the name of
\* the failed step and the message of the cause, and nothing of a later
\* step (wait, pacing delay, action, pause) is ever executed: the failure
\* stays the last event and no delay timer or wait is left.
C1_RequiredFailureAborts ==
    \A k \in 1..Len(trace) :
        (trace[k].ev = "failed" /\ Required(trace[k].step)) =>
            /\ k = Len(trace)
            /\ seq.pc = "done"
            /\ seq.result = "rejected"
            /\ seq.error.name = steps[trace[k].step].name
            /\ seq.error.cause = CauseAt(k)
            /\ seq.error.cause # NoError
            /\ seq.wait = 0
            /\ ~ \E t \in timers : t.kind \in {"actionDelay", "delayAfter"}
            /\ \A a \in Tops : attempts[a].owner <= trace[k].step

\* A required step that is not the last one failed because its wait was
\* rejected.
C1_Witness ==
    /\ seq.result = "rejected"
    /\ seq.i < Len(steps)
    /\ Len(trace) > 1
    /\ trace[Len(trace) - 1].ev = "wait"
    /\ seq.error.cause.text = "Element not found after"

\* ---------------------------------------------------------------- C2
\* C2: when a step with required === false fails, the sequence goes on with
\* the next step of the list (or returns true when the failed step was the
\* last); a rejected sequence always ends in the failure of a step that is
\* not optional, and a sequence that returned true attempted every step, in
\* list order.
C2_OptionalFailureContinues ==
    /\ \A k \in 1..Len(trace) :
        (trace[k].ev = "failed" /\ ~Required(trace[k].step)) =>
            IF trace[k].step < Len(steps)
            THEN /\ k < Len(trace)
                 /\ IsAttemptEv(trace[k + 1])
                 /\ trace[k + 1].step = trace[k].step + 1
            ELSE /\ k = Len(trace)
                 /\ seq.result = "true"
    /\ seq.result = "rejected" =>
          /\ trace[Len(trace)].ev = "failed"
          /\ Required(trace[Len(trace)].step)
    /\ seq.result = "true" =>
          LET tried == SelectSeq(trace, IsAttemptEv)
          IN /\ Len(tried) = Len(steps)
             /\ \A j \in 1..Len(tried) : tried[j].step = j

\* An optional step failed and a later step was attempted after it.
C2_Witness ==
    \E k \in 1..Len(trace) :
        /\ trace[k].ev = "failed"
        /\ ~Required(trace[k].step)
        /\ k < Len(trace)
        /\ trace[Len(trace)].step > trace[k].step

\* ---------------------------------------------------------------- C3
\* C3 as stated: nothing of step i+1 starts before the action of step i has
\* run and the delayAfter pause of step i has completed.
C3_AsStated ==
    \A k \in 1..Len(trace) :
        (trace[k].ev = "start" /\ trace[k].step > 1) =>
            \E ka, kd \in 1..(k - 1) :
                /\ ka < kd
                /\ trace[ka] = Ev("action", trace[k].step - 1, 0)
                /\ trace[kd].ev = "delayDone"
                /\ trace[kd].step = trace[k].step - 1

\* C3 (amended): steps run one after another in list order.  Step i+1
\* starts right after the delayAfter pause of step i has completed (the
\* pause follows the action, the action follows the pacing delay), or right
\* after step i failed as an optional step, whose pause is then not made.
\* At no time are two steps in progress: every delay timer and every
\* pending wait of the sequence belongs to the current step, and there is at
\* most one of them.
C3_StrictlySequential ==
    /\ \A k \in 1..Len(trace) :
         /\ (trace[k].ev = "start" /\ trace[k].step > 1) =>
               \/ /\ trace[k - 1].ev = "delayDone"
                  /\ trace[k - 1].step = trace[k].step - 1
               \/ /\ trace[k - 1] = Ev("failed", trace[k].step - 1, 0)
                  /\ ~Required(trace[k].step - 1)
         /\ (trace[k].ev = "start" /\ trace[k].step = 1) => k = 1
         /\ trace[k].ev = "delayDone" =>
               /\ trace[k - 1].ev = "delayAfter"
               /\ trace[k - 1].step = trace[k].step
               /\ trace[k - 2] = Ev("action", trace[k].step, 0)
         /\ trace[k].ev = "action" =>
               /\ trace[k - 1].ev = "actionDelay"
               /\ trace[k - 1].step = trace[k].step
         /\ k > 1 => trace[k - 1].step <= trace[k].step
    /\ LET delays == {t \in timers : t.kind \in {"actionDelay", "delayAfter"}}
           waits == {a \in Tops : attempts[a].owner # 0
                                  /\ attempts[a].promise = "pending"}
       IN /\ Cardinality(delays) + Cardinality(waits) <= 1
          /\ \A t \in delays : t.id = seq.i /\ t.kind = seq.pc
          /\ \A a \in waits : /\ attempts[a].owner = seq.i
                              /\ seq.pc = "waiting"
                              /\ seq.wait = a

\* The second step has started after the wait, the action and the pause of
\* the first.
C3_Witness ==
    /\ Len(trace) >= 7
    /\ trace[2] = Ev("wait", 1, 0)
    /\ trace[4] = Ev("action", 1, 0)
    /\ trace[6].ev = "delayDone"
    /\ trace[7] = Ev("start", 2, 0)

\* ---------------------------------------------------------------- C4
\* C4: a finished sequence has resolved to true exactly when no required
\* step failed (an unfinished one has no result); and when it resolved to
\* true the actions invoked for required steps are those of all required
\* steps, each once, in list order.
C4_TrueIffNoRequiredFailure ==
    /\ seq.pc # "done" => seq.result = "none"
    /\ seq.pc = "done" =>
          (seq.result = "true" <=>
              ~ \E k \in 1..Len(trace) :
                    trace[k].ev = "failed" /\ Required(trace[k].step))
    /\ seq.result = "true" =>
          LET acts == SelectSeq(trace, LAMBDA e : e.ev = "action" /\ Required(e.step))
              req == {j \in 1..Len(steps) : Required(j)}
          IN /\ Len(acts) = Cardinality(req)
             /\ \A j \in req : \E m \in 1..Len(acts) : acts[m].step = j
             /\ \A m, n \in 1..Len(acts) : m < n => acts[m].step < acts[n].step

\* A sequence of two or more steps, the first of them required, resolved to
\* true although an (optional) step failed.
C4_Witness ==
    /\ seq.result = "true"
    /\ Len(steps) >= 2
    /\ Required(1)
    /\ \E k \in 1..Len(trace) : trace[k].ev = "failed"

\* ---------------------------------------------------------------- C5
\* C5: a call started with retryCount 0 never makes more than maxRetries+1
\* attempts; when it has rejected, it made exactly maxRetries+1 attempts,
\* every one of them ended by its own timeout and by nothing else, and
\* reject was called once, after the last attempt had timed out; and once
\* the last of maxRetries+1 attempts has timed out the call has rejected.
C5_RejectsAfterAllAttempts ==
    \A r \in Tops :
        attempts[r].config.retryCount = 0 =>
            LET ch == Chain(r)
                n == attempts[r].config.maxRetries
                timedOut == {a \in ch : attempts[a].effects = <<"timeout">>}
            IN /\ Cardinality(ch) <= n + 1
               /\ \A a \in ch : attempts[a].config.retryCount < n + 1
               /\ attempts[r].promise = "rejected" =>
                     /\ Cardinality(ch) = n + 1
                     /\ timedOut = ch
                     /\ attempts[r].settleCalls = 1
                     /\ attempts[r].error.text = "Element not found after"
               /\ Cardinality(timedOut) = n + 1 => attempts[r].promise = "rejected"
               /\ Cardinality(timedOut) < n + 1 => attempts[r].promise # "rejected"

\* A call with retryCount 0 and maxRetries 2 has rejected.
C5_Witness ==
    \E r \in Tops :
        /\ attempts[r].config.retryCount = 0
        /\ attempts[r].config.maxRetries = 2
        /\ attempts[r].promise = "rejected"
        /\ Cardinality(Chain(r)) = 3

\* ---------------------------------------------------------------- C6
\* C6: in every attempt at most one path (immediate check, mutation
\* observer, poll, timeout) has taken effect, whatever the order of the
\* callbacks, and resolve/reject of every promise of the chain, the
\* caller's included, has been called at most once.
C6_AtMostOnePath ==
    \A a \in 1..Len(attempts) :
        /\ Len(attempts[a].effects) <= 1
        /\ attempts[a].settleCalls <= 1
        /\ attempts[a].resolved <=> attempts[a].effects # <<>>

\* The mutation path won and the poll timer of the attempt fired afterwards
\* without effect.
C6_Witness ==
    \E a \in 1..Len(attempts) :
        /\ attempts[a].effects = <<"mutation">>
        /\ TimersOf(a, "poll") = {}
        /\ attempts[a].settleCalls = 1

C8_ObserversDisconnected ==
    /\ \A a \in 1..Len(attempts) :
          attempts[a].resolved => attempts[a].observer # "connected"
    /\ \A r \in Tops :
          LET connected == {a \in Chain(r) : attempts[a].observer = "connected"}
          IN /\ Cardinality(connected) <= 1
             /\ attempts[r].promise # "pending" => connected = {}

\* A call settled after a timed-out attempt and a retry that found the
\* element: both observers are disconnected.
C8_Witness ==
    \E r \in Tops :
        /\ attempts[r].promise = "fulfilled"
        /\ Cardinality({a \in Chain(r) : attempts[a].observer = "disconnected"}) >= 2

\* ---------------------------------------------------------------- C9
\* C9: whenever waitForElement is called while the page holds an element
\* that passes validation, the promise of that call is fulfilled with that
\* element by the end of the call, no timeout or polling timer of the call
\* is scheduled and no observer is created.
C9_ImmediateResolve ==
    [][\A a \in (Len(attempts) + 1)..Len(attempts') :
          LET att == attempts'[a]
              e == findBestElement(dom', selectorArray(att.selectors), att.config)
          IN e # Null =>
                /\ att.promise = "fulfilled"
                /\ att.value = e
                /\ att.settleCalls = 1
                /\ att.observer = "none"
                /\ {t \in timers' : t.id = a /\ t.kind \in {"timeout", "poll"}} = {}]_vars

\* A call from outside found its element at once.
C9_Witness ==
    \E a \in Tops :
        /\ attempts[a].effects = <<"immediate">>
        /\ attempts[a].promise = "fulfilled"
        /\ attempts[a].value = 1

\* --------------------------------------------------------------- C10
DefaultTimeouts == <<5000, 7500, 10000, 10000>>

\* C10: a retry runs with the retryCount of the attempt that timed out plus
\* one and with timeout min(1.5 x its timeout, 10000); the selectors and
\* every other option are those of that attempt.  A call that gives neither
\* timeout nor maxRetries nor retryCount waits 5000, 7500, 10000 and
\* 10000 ms in its four attempts.
C10_RetryConfig ==
    /\ \A a \in 1..Len(attempts) :
          attempts[a].parent # 0 =>
             LET c == attempts[a].config
                 o == attempts[a].options
                 pc == attempts[attempts[a].parent].config
                 po == attempts[attempts[a].parent].options
             IN /\ pc.retryCount < pc.maxRetries
                /\ c.retryCount = pc.retryCount + 1
                /\ 2 * c.timeout = IF 3 * pc.timeout < 20000 THEN 3 * pc.timeout
                                   ELSE 20000
                /\ c.maxRetries = pc.maxRetries
                /\ c.validateVisibility = pc.validateVisibility
                /\ c.validateInteractable = pc.validateInteractable
                /\ DOMAIN c = DOMAIN pc
                /\ attempts[a].selectors = attempts[attempts[a].parent].selectors
                /\ DOMAIN o = DOMAIN po \cup {"retryCount", "timeout"}
                /\ \A k \in DOMAIN po \ {"retryCount", "timeout"} : o[k] = po[k]
    /\ \A r \in Tops :
          DOMAIN attempts[r].options \cap {"timeout", "maxRetries", "retryCount"} = {} =>
              /\ Cardinality(Chain(r)) <= 4
              /\ \A a \in Chain(r) :
                    attempts[a].config.timeout =
                        DefaultTimeouts[attempts[a].config.retryCount + 1]

\* A call with the default configuration is in its fourth attempt.
C10_Witness ==
    \E a \in 1..Len(attempts) :
        /\ DOMAIN attempts[Root(a)].options \cap {"timeout", "maxRetries", "retryCount"} = {}
        /\ attempts[a].config.retryCount = 3
        /\ attempts[a].config.timeout = 10000
        /\ attempts[attempts[a].parent].config.timeout = 10000


\* --------------------------------------------------------------- C11
\* The time the attempts of the call r have waited when its last timeout
\* fired: every attempt of the chain was ended by its own timeout timer,
\* and each retry was started in the timeout callback of the one before.
RECURSIVE SumTimeouts(_)
SumTimeouts(S) ==
    IF S = {} THEN 0
    ELSE LET a == CHOOSE x \in S : TRUE
         IN attempts[a].config.timeout + SumTimeouts(S \ {a})

Rejected(r) == attempts[r].parent = 0 /\ attempts[r].promise = "rejected"

MaxElems == 2
MaxSelectors == 2

TxtNo == <<"N", "o">>
TxtLong == <<"x", "o", "K", "!">>

\* Elements for every branch of validateElement.
ElOk == El(0, {"a"}, 10, "block", FALSE, TxtOk)
ValElements ==
    { ElOk,
      [ElOk EXCEPT !.width = 0],
      [ElOk EXCEPT !.height = 0],
      [ElOk EXCEPT !.display = "none"],
      [ElOk EXCEPT !.visibility = "hidden"],
      [ElOk EXCEPT !.opacity = "0"],
      [ElOk EXCEPT !.disabled = TRUE],
      [ElOk EXCEPT !.ariaDisabled = "true"],
      [ElOk EXCEPT !.textContent = <<>>],
      [ElOk EXCEPT !.textContent = TxtNo],
      [ElOk EXCEPT !.textContent = TxtLong],
      [ElOk EXCEPT !.display = "none", !.disabled = TRUE, !.textContent = TxtNo] }

\* Elements a page is built from.
LocElements ==
    { ElOk,
      [ElOk EXCEPT !.sels = {"b"}],
      [ElOk EXCEPT !.sels = {"a", "b"}, !.textContent = TxtNo],
      [ElOk EXCEPT !.display = "none"],
      [ElOk EXCEPT !.sels = {"a", "b"}, !.disabled = TRUE],
      [ElOk EXCEPT !.sels = {"b"}, !.opacity = "0", !.textContent = TxtLong] }

\* A page: its elements in document order, each its own node.
MkPage(q) == [k \in 1..Len(q) |-> [q[k] EXCEPT !.id = k]]
LocPages == {MkPage(q) : q \in SeqsUpTo(LocElements, MaxElems)}

LocSelectorLists == SeqsUpTo({"a", "b"} \cup MalformedSelectors, MaxSelectors)

TextPatterns == { <<>>, << <<"o", "K">> >>, << <<"z">>, TxtNo >> }

\* The options that matter to validateElement, each given or left out.
LocOptions ==
    { v @@ i @@ t :
        v \in {<<>>, [validateVisibility |-> FALSE]},
        i \in {<<>>, [validateInteractable |-> TRUE]},
        t \in {<<>>} \cup {[textPattern |-> p] : p \in TextPatterns} }

LocConfigs == {BuildConfig(o) : o \in LocOptions}

FindProbes ==
    { [fn |-> "findBestElement", page |-> p, selectors |-> sl, config |-> c,
       state |-> "ready", result |-> Null, accepted |-> FALSE] :
        p \in LocPages, sl \in LocSelectorLists, c \in LocConfigs }

ValidateProbes ==
    { [fn |-> "validateElement", page |-> MkPage(<<e>>), selectors |-> <<>>,
       config |-> c, state |-> "ready", result |-> Null, accepted |-> FALSE] :
        e \in ValElements, c \in LocConfigs }

FindBestElement ==
    /\ probe.fn = "findBestElement"
    /\ probe.state = "ready"
    /\ probe' = [probe EXCEPT
                   !.state = "done",
                   !.result = findBestElement(probe.page, probe.selectors,
                                              probe.config)]
    /\ UNCHANGED <<dom, pages, timers, attempts, steps, seq, trace, call,
                   request, ctx, run2,
                   inj, opts>>

ValidateElement ==
    /\ probe.fn = "validateElement"
    /\ probe.state = "ready"
    /\ probe' = [probe EXCEPT
                   !.state = "done",
                   !.accepted = validateElement(probe.page[1], probe.config)]
    /\ UNCHANGED <<dom, pages, timers, attempts, steps, seq, trace, call,
                   request, ctx, run2,
                   inj, opts>>

LocatorInit ==
    /\ pages = {PageEmpty}
    /\ dom = PageEmpty
    /\ timers = {}
    /\ attempts = <<>>
    /\ steps = <<>>
    /\ seq = IdleSeq
    /\ trace = <<>>
    /\ call = NoCall
    /\ probe \in FindProbes \cup ValidateProbes
    /\ request = NoReq
    /\ ctx = NoCtx
    /\ run2 = NoRun
    /\ inj = NoInj
    /\ opts = NoOpts

LocatorNext ==
    \/ FindBestElement
    \/ ValidateElement

LocatorSpec == LocatorInit /\ [][LocatorNext]_vars

\* What each check of the Locator asks of an element.
IsVisible(e) ==
    /\ e.width # 0
    /\ e.height # 0
    /\ e.display # "none"
    /\ e.visibility # "hidden"
    /\ e.opacity # "0"

IsEnabled(e) == ~e.disabled /\ e.ariaDisabled # "true"

ContainsOneOf(e, patterns) ==
    \E k \in 1..Len(patterns) :
        includes(toLowerCase(e.textContent), toLowerCase(patterns[k]))

PassesRequested(e, c) ==
    /\ c.validateVisibility => IsVisible(e)
    /\ c.validateInteractable => IsEnabled(e)
    /\ Has(c, "textPattern") => ContainsOneOf(e, c.textPattern)

FindDone == probe.fn = "findBestElement" /\ probe.state = "done"

\* The (selector, element) positions that match and pass validation.
ValidMatches ==
    { m \in (1..Len(probe.selectors)) \X (1..Len(probe.page)) :
        /\ probe.selectors[m[1]] \notin MalformedSelectors
        /\ probe.selectors[m[1]] \in probe.page[m[2]].sels
        /\ validateElement(probe.page[m[2]], probe.config) }

Before(m, n) == m[1] < n[1] \/ (m[1] = n[1] /\ m[2] <= n[2])

\* --------------------------------------------------------------- C12
\* C12: findBestElement returns the element of the first valid match, the
\* selectors taken in list order and the matches of one selector in
\* document order; it returns null exactly when no match of any selector
\* passes validateElement, and the element it returns passes every check
\* the config asks for.
C12_FirstValidMatch ==
    FindDone =>
       /\ (probe.result = Null) <=> (ValidMatches = {})
       /\ ValidMatches # {} =>
             \E m \in ValidMatches :
                 /\ \A n \in ValidMatches : Before(m, n)
                 /\ probe.result = probe.page[m[2]].id
       /\ probe.result # Null =>
             PassesRequested(probe.page[probe.result], probe.config)

\* The second selector's second match is returned: the first selector
\* matches only an element that fails validation, and so does the second
\* selector's first match.
C12_Witness ==
    /\ FindDone
    /\ probe.result = 2
    /\ Len(probe.selectors) = 2
    /\ probe.selectors[1] \in probe.page[1].sels
    /\ probe.selectors[2] \in probe.page[1].sels
    /\ probe.selectors[1] \notin probe.page[2].sels

\* --------------------------------------------------------------- C13
WellFormed(selectors) == SelectSeq(selectors, LAMBDA x : x \notin MalformedSelectors)

\* C13: a malformed selector never makes findBestElement throw: the result
\* is the one the list without its malformed selectors gives, so a valid
\* element matched by a later selector is still returned.
C13_MalformedSkipped ==
    FindDone =>
       /\ probe.result # Thrown
       /\ probe.result = findBestElement(probe.page, WellFormed(probe.selectors),
                                         probe.config)

\* A malformed selector came first and the element of the selector after
\* it was returned.
C13_Witness ==
    /\ FindDone
    /\ Len(probe.selectors) = 2
    /\ probe.selectors[1] \in MalformedSelectors
    /\ probe.result # Null
    /\ probe.selectors[2] \in probe.page[probe.result].sels

\* --------------------------------------------------------------- C14
ValidateDone == probe.fn = "validateElement" /\ probe.state = "done"

\* C14: validateElement accepts an element exactly when it passes every
\* check the config asks for: visible when validateVisibility, not
\* disabled when validateInteractable, the text holding one of the patterns
\* whatever the case of the letters when textPattern is set.  What a check
\* that was not asked for would have found changes nothing.
C14_AcceptsIffRequestedChecksPass ==
    ValidateDone =>
       (probe.accepted <=> PassesRequested(probe.page[1], probe.config))

\* An element that is hidden, disabled and of another text was accepted
\* because none of the three checks was asked for.
C14_Witness ==
    /\ ValidateDone
    /\ probe.accepted
    /\ ~IsVisible(probe.page[1])
    /\ ~IsEnabled(probe.page[1])
    /\ ~ContainsOneOf(probe.page[1], << <<"o", "K">> >>)
    /\ ~probe.config.validateVisibility
    /\ ~probe.config.validateInteractable
    /\ ~Has(probe.config, "textPattern")


\* -------------------------------------------------------- URL utilities
\* A string is a sequence of one-character strings.
\* The literal texts of the regular expressions, selectors and URLs.
Lit ==
    [ origin |-> <<"h", "t", "t", "p", "s", ":", "/", "/", "w", "w", "w",
                     ".", "y", "o", "u", "t", "u", "b", "e", ".", "c", "o",
                     "m">>,
      qv |-> <<"?", "v", "=">>,
      av |-> <<"&", "v", "=">>,
      slashWatchQV |-> <<"/", "w", "a", "t", "c", "h", "?", "v", "=">>,
      embed |-> <<"/", "e", "m", "b", "e", "d", "/">>,
      v |-> <<"/", "v", "/">>,
      youtuBe |-> <<"y", "o", "u", "t", "u", ".", "b", "e", "/">>,
      watchQV |-> <<"w", "a", "t", "c", "h", "?", "v", "=">>,
      watchSlash |-> <<"w", "a", "t", "c", "h", "/">> ]
IdX == <<"A", "1">>
IdXY == <<"A", "1", "b">>
IdZ == <<"Z", "9">>
IdQuote == <<"A", "\"">>

\* The first index at which lit occurs in s, 0 when it does not.
IndexOf(s, lit) ==
    LET hits == {k \in 1..(Len(s) - Len(lit) + 1) :
                   \A j \in 1..Len(lit) : s[k + j - 1] = lit[j]}
    IN IF hits = {} THEN 0 ELSE CHOOSE k \in hits : \A h \in hits : k <= h

\* The regular expressions of extractVideoId, in the order they are tried:
\* the literal texts a match starts with and the characters its group
\* stops at.
VideoIdPatterns ==
    << [lits |-> {Lit.qv, Lit.av}, stops |-> {"&", "#"}],
       [lits |-> {Lit.slashWatchQV}, stops |-> {"&", "#"}],
       [lits |-> {Lit.embed}, stops |-> {"?", "&", "#"}],
       [lits |-> {Lit.v}, stops |-> {"?", "&", "#"}],
       [lits |-> {Lit.youtuBe}, stops |-> {"?", "&", "#"}] >>

\* The absent video id (null); extractVideoId never returns an empty string.
NoId == <<>>

\* url.match(pattern)[1]: the group of the leftmost match, the longest run
\* of characters up to a stop character; empty also when nothing matches.
Group(url, pattern) ==
    LET starts == {IndexOf(url, l) : l \in pattern.lits} \ {0}
    IN IF starts = {} THEN <<>>
       ELSE LET at == CHOOSE k \in starts : \A h \in starts : k <= h
                from == at + Len(CHOOSE l \in pattern.lits : TRUE)
                ends == {k \in from..Len(url) : url[k] \in pattern.stops}
                upto == IF ends = {} THEN Len(url)
                        ELSE (CHOOSE k \in ends : \A h \in ends : k <= h) - 1
            IN SubSeq(url, from, upto)

extractVideoId(url) ==
    IF url = <<>> THEN NoId
    ELSE LET hits == {i \in 1..Len(VideoIdPatterns) :
                        Group(url, VideoIdPatterns[i]) # <<>>}
         IN IF hits = {} THEN NoId
            ELSE Group(url, VideoIdPatterns[CHOOSE i \in hits :
                                               \A h \in hits : i <= h])

\* ------------------------------------------------------ the video finder
maxDepth == 15

CONTAINER_TYPES ==
    << "ytd-compact-video-renderer", "ytd-video-renderer",
       "ytd-grid-video-renderer", "ytd-rich-item-renderer",
       "ytd-playlist-video-renderer", "ytd-reel-item-renderer" >>

ContainerTags == {CONTAINER_TYPES[i] : i \in 1..Len(CONTAINER_TYPES)}

\* A document is the sequence of the elements below document.body in
\* document order; parent is the index of the parent element, 0 for a child
\* of document.body.  An attribute an element does not have is no field.
Body == 0

RECURSIVE Ancestors(_, _)
Ancestors(doc, k) ==
    IF doc[k].parent = Body THEN {}
    ELSE {doc[k].parent} \cup Ancestors(doc, doc[k].parent)

Descendants(doc, c) == {k \in 1..Len(doc) : c \in Ancestors(doc, k)}

Indexes(doc) == [k \in 1..Len(doc) |-> k]

\* The first element of the sequence q with P, null when there is none.
FirstWhere(q, P(_)) ==
    LET m == SelectSeq(q, P) IN IF m = <<>> THEN Null ELSE Head(m)

\* The first non-null F(i), i = 1..n.
FirstOver(n, F(_)) ==
    LET hits == {i \in 1..n : F(i) # Null}
    IN IF hits = {} THEN Null
       ELSE F(CHOOSE i \in hits : \A h \in hits : i <= h)

\* link.href: the href attribute resolved against the page's origin.
AbsoluteHref(h) == IF h # <<>> /\ h[1] = "/" THEN Lit.origin \o h ELSE h

\* The element matches a[href*="lit"].
HrefContains(e, lit) == e.tag = "a" /\ Has(e, "href") /\ includes(e.href, lit)

\* A double quote in the id ends the quoted value of the attribute selector
\* it is pasted into: querySelectorAll throws a SyntaxError.
BreaksSelector(videoId) == \E k \in 1..Len(videoId) : videoId[k] = "\""

findParentContainer(doc, element) ==
    LET RECURSIVE Climb(_, _)
        Climb(current, i) ==
            IF ~(i < maxDepth /\ current # Body) THEN Null
            ELSE IF doc[current].tag \in ContainerTags THEN current
            ELSE Climb(doc[current].parent, i + 1)
    IN Climb(element, 0)

\* dataset.videoId is the data-video-id attribute again.  The selector of
\* the link check is built only when the attribute differs from the id.
validateVideoContainer(doc, container, videoId) ==
    IF Has(doc[container], "dataVideoId") /\ doc[container].dataVideoId = videoId
    THEN TRUE
    ELSE \E k \in Descendants(doc, container) : HrefContains(doc[k], videoId)

containerContainsVideo(doc, container, videoId) ==
    \/ \E k \in Descendants(doc, container) :
          /\ doc[k].tag = "a"
          /\ Has(doc[k], "href")
          /\ extractVideoId(AbsoluteHref(doc[k].href)) = videoId
    \/ \E k \in Descendants(doc, container) :
          \/ Has(doc[k], "dataVideoId") /\ doc[k].dataVideoId = videoId
          \/ /\ Has(doc[k], "dataHref")
             /\ doc[k].dataHref # <<>>
             /\ extractVideoId(doc[k].dataHref) = videoId

\* Strategy 1: containerType[data-video-id="videoId"], type by type.
AttributeMatch(doc, videoId) ==
    IF BreaksSelector(videoId) THEN Thrown
    ELSE FirstOver(Len(CONTAINER_TYPES),
           LAMBDA t :
             FirstWhere(Indexes(doc),
               LAMBDA k : /\ doc[k].tag = CONTAINER_TYPES[t]
                          /\ Has(doc[k], "dataVideoId")
                          /\ doc[k].dataVideoId = videoId
                          /\ validateVideoContainer(doc, k, videoId)))

linkSelectors(videoId) ==
    << Lit.watchQV \o videoId, Lit.watchSlash \o videoId, Lit.v \o videoId,
       Lit.youtuBe \o videoId >>

\* Strategy 2: the links whose href holds one of four texts, selector by
\* selector, each followed up to its container.
LinkTraversal(doc, videoId) ==
    IF BreaksSelector(videoId) THEN Thrown
    ELSE FirstOver(Len(linkSelectors(videoId)),
           LAMBDA s :
             LET link == FirstWhere(Indexes(doc),
                           LAMBDA k :
                             /\ HrefContains(doc[k], linkSelectors(videoId)[s])
                             /\ findParentContainer(doc, k) # Null
                             /\ validateVideoContainer(
                                    doc, findParentContainer(doc, k), videoId))
             IN IF link = Null THEN Null ELSE findParentContainer(doc, link))

\* Strategy 3: every container of a known type, type by type, searched for
\* the id.
ContentSearch(doc, videoId) ==
    FirstOver(Len(CONTAINER_TYPES),
      LAMBDA t :
        FirstWhere(Indexes(doc),
          LAMBDA k : /\ doc[k].tag = CONTAINER_TYPES[t]
                     /\ containerContainsVideo(doc, k, videoId)))

searchStrategies(doc, videoId, i) ==
    CASE i = 1 -> AttributeMatch(doc, videoId)
      [] i = 2 -> LinkTraversal(doc, videoId)
      [] OTHER -> ContentSearch(doc, videoId)

NumStrategies == 3

\* Mutant: no try/catch around a strategy.
TryStrategyNoCatch(doc, videoId, i) == searchStrategies(doc, videoId, i)

\* The try block of the loop over the strategies: what the strategy
\* returned, nothing when it threw.
TryStrategy(doc, videoId, i) ==
    LET r == searchStrategies(doc, videoId, i)
    IN IF r = Thrown THEN Null ELSE r

\* The result and, for each strategy that was run, what it ended with.
findVideoElementById(doc, videoId) ==
    LET RECURSIVE Run(_, _)
        Run(i, outcomes) ==
            IF i > NumStrategies THEN [result |-> Null, outcomes |-> outcomes]
            ELSE LET r == TryStrategy(doc, videoId, i)
                     seen == Append(outcomes, searchStrategies(doc, videoId, i))
                 IN IF r = Thrown THEN [result |-> Thrown, outcomes |-> seen]
                    ELSE IF r # Null THEN [result |-> r, outcomes |-> seen]
                    ELSE Run(i + 1, seen)
    IN Run(1, <<>>)

\* ------------------------------------------- the video finder by itself
MaxNodes == 3

Node(tag) == [id |-> 0, parent |-> Body, tag |-> tag]
Anchor(href) == Node("a") @@ [href |-> href]

\* The elements the generated documents are made of: a container without
\* and one with a data-video-id, a wrapper, and links to the video A1, to
\* the video A1b and to an id with a double quote in it.
NodeKinds ==
    { Node("ytd-video-renderer"),
      Node("ytd-rich-item-renderer") @@ [dataVideoId |-> IdX],
      Node("div"),
      Anchor(Lit.slashWatchQV \o IdX),
      Anchor(Lit.slashWatchQV \o IdXY),
      Anchor(Lit.slashWatchQV \o IdQuote) }

\* Documents in document order: the parent of a new last element is the
\* body, the element before it or one of that element's ancestors.
RECURSIVE DocsUpTo(_)
DocsUpTo(n) ==
    IF n = 0 THEN {<<>>}
    ELSE LET shorter == DocsUpTo(n - 1)
             Parents(d) == IF d = <<>> THEN {Body}
                           ELSE {Body, Len(d)} \cup Ancestors(d, Len(d))
         IN shorter \cup
            UNION { { Append(d, [t EXCEPT !.id = Len(d) + 1, !.parent = p]) :
                        t \in NodeKinds, p \in Parents(d) } :
                    d \in {x \in shorter : Len(x) = n - 1} }

\* A container, n wrappers nested in it and, innermost, an element.
Nested(n, inner) ==
    [k \in 1..(n + 2) |->
        IF k = 1 THEN [Node("ytd-video-renderer") EXCEPT !.id = 1]
        ELSE IF k = n + 2 THEN [inner EXCEPT !.id = k, !.parent = k - 1]
        ELSE [Node("div") EXCEPT !.id = k, !.parent = k - 1]]

\* The video A1b and after it the video A1, each a container with its link.
TwoVideos ==
    << [Node("ytd-video-renderer") EXCEPT !.id = 1],
       [Anchor(Lit.slashWatchQV \o IdXY) EXCEPT !.id = 2, !.parent = 1],
       [Node("ytd-video-renderer") EXCEPT !.id = 3],
       [Anchor(Lit.slashWatchQV \o IdX) EXCEPT !.id = 4, !.parent = 3] >>

\* Documents with a link just within and just beyond the reach of
\* findParentContainer, and with the other forms of link and attribute.
OtherDocs ==
    { Nested(maxDepth - 2, Anchor(Lit.slashWatchQV \o IdX)),
      Nested(maxDepth - 1, Anchor(Lit.slashWatchQV \o IdX)),
      Nested(0, Anchor(<<"h", "t", "t", "p", "s", ":", "/", "/">>
                       \o Lit.youtuBe \o IdX)),
      Nested(0, Anchor(<<"/">> \o Lit.watchSlash \o IdX)),
      Nested(0, Anchor(Lit.v \o IdX)),
      Nested(0, Anchor(Lit.slashWatchQV \o IdZ \o Lit.av \o IdX)),
      Nested(1, Node("div") @@ [dataHref |-> Lit.origin \o Lit.embed \o IdX]),
      TwoVideos }

FinderDocs == DocsUpTo(MaxNodes) \cup OtherDocs

VideoIds == {IdX, IdXY, IdZ, IdQuote}

FinderProbes ==
    { [fn |-> "findVideoElementById", doc |-> d, videoId |-> v,
       state |-> "ready", result |-> Null, outcomes |-> <<>>] :
        d \in FinderDocs, v \in VideoIds }

FindVideoElementById ==
    /\ probe.fn = "findVideoElementById"
    /\ probe.state = "ready"
    /\ LET r == findVideoElementById(probe.doc, probe.videoId)
       IN probe' = [probe EXCEPT !.state = "done", !.result = r.result,
                                 !.outcomes = r.outcomes]
    /\ UNCHANGED <<dom, pages, timers, attempts, steps, seq, trace, call,
                   request, ctx, run2,
                   inj, opts>>

FinderInit ==
    /\ pages = {PageEmpty}
    /\ dom = PageEmpty
    /\ timers = {}
    /\ attempts = <<>>
    /\ steps = <<>>
    /\ seq = IdleSeq
    /\ trace = <<>>
    /\ call = NoCall
    /\ probe \in FinderProbes
    /\ request = NoReq
    /\ ctx = NoCtx
    /\ run2 = NoRun
    /\ inj = NoInj
    /\ opts = NoOpts

FinderNext == FindVideoElementById

FinderSpec == FinderInit /\ [][FinderNext]_vars

FindVideoDone == probe.fn = "findVideoElementById" /\ probe.state = "done"

Found1(x) == x \notin {Null, Thrown}

\* --------------------------------------------------------------- C18
\* C18: findVideoElementById runs attribute match, link traversal and
\* content search in that order and returns what the first strategy that
\* finds a container returns; a strategy that throws counts as one that
\* found nothing and the next one is run; null is returned only after all
\* three found nothing, and no exception leaves the function.
C18_StrategiesInOrder ==
    FindVideoDone =>
       LET o == probe.outcomes
           n == Len(o)
       IN /\ probe.result # Thrown
          /\ n \in 1..NumStrategies
          /\ o[1] = AttributeMatch(probe.doc, probe.videoId)
          /\ n >= 2 => o[2] = LinkTraversal(probe.doc, probe.videoId)
          /\ n >= 3 => o[3] = ContentSearch(probe.doc, probe.videoId)
          /\ \A i \in 1..(n - 1) : ~Found1(o[i])
          /\ IF Found1(o[n]) THEN probe.result = o[n]
             ELSE n = NumStrategies /\ probe.result = Null

\* The first two strategies threw and the third found the container.
C18_Witness ==
    /\ FindVideoDone
    /\ Len(probe.outcomes) = 3
    /\ probe.outcomes[1] = Thrown
    /\ probe.outcomes[2] = Thrown
    /\ Found1(probe.outcomes[3])
    /\ probe.result = probe.outcomes[3]

\* --------------------------------------------------------------- C19
\* The element is a link whose href is a watch URL of the video.
IsWatchLinkFor(e, videoId) ==
    /\ e.tag = "a"
    /\ Has(e, "href")
    /\ IndexOf(e.href, Lit.slashWatchQV) # 0
    /\ extractVideoId(AbsoluteHref(e.href)) = videoId

\* The container is the video's: its own data-video-id is the id, or a
\* link or a data attribute inside it holds exactly the id.
TrulyEncodes(doc, c, videoId) ==
    \/ Has(doc[c], "dataVideoId") /\ doc[c].dataVideoId = videoId
    \/ \E k \in Descendants(doc, c) :
          \/ /\ doc[k].tag = "a"
             /\ Has(doc[k], "href")
             /\ extractVideoId(AbsoluteHref(doc[k].href)) = videoId
          \/ Has(doc[k], "dataVideoId") /\ doc[k].dataVideoId = videoId
          \/ Has(doc[k], "dataHref") /\ extractVideoId(doc[k].dataHref) = videoId

\* The id occurs in an attribute or a link of the document.
Occurs(doc, videoId) ==
    \E k \in 1..Len(doc) :
        \/ Has(doc[k], "dataVideoId") /\ includes(doc[k].dataVideoId, videoId)
        \/ Has(doc[k], "href") /\ includes(doc[k].href, videoId)
        \/ Has(doc[k], "dataHref") /\ includes(doc[k].dataHref, videoId)

\* C19: when a container of a known type holds a link to the watch URL of
\* the id, findVideoElementById returns a container of that video; for an
\* id that occurs in no attribute and no link it returns null; whatever it
\* returns is an element of a known container type.
C19_AsStated ==
    FindVideoDone =>
       /\ (\E c \in 1..Len(probe.doc) :
              /\ probe.doc[c].tag \in ContainerTags
              /\ \E k \in Descendants(probe.doc, c) :
                    IsWatchLinkFor(probe.doc[k], probe.videoId))
          => /\ Found1(probe.result)
             /\ TrulyEncodes(probe.doc, probe.result, probe.videoId)
       /\ ~Occurs(probe.doc, probe.videoId) => probe.result = Null
       /\ Found1(probe.result) => probe.doc[probe.result].tag \in ContainerTags

\* --------------------------------------------------------------- C20
\* C20: a container findVideoElementById returns is the video's: its
\* data-video-id is the id or something inside it holds exactly the id; a
\* container whose links are those of a video whose id only contains the
\* id is not returned.
C20_AsStated ==
    (FindVideoDone /\ Found1(probe.result)) =>
        TrulyEncodes(probe.doc, probe.result, probe.videoId)


\* ------------------------------------------------------ the menu button
\* MENU_SELECTORS_BY_TYPE[containerType] || []
MENU_SELECTORS_BY_TYPE(containerType) ==
    CASE containerType = "ytd-compact-video-renderer" ->
           << "#menu yt-icon-button button",
              "ytd-menu-renderer yt-icon-button button",
              ".dropdown-trigger button",
              "yt-icon-button.dropdown-trigger button",
              "#menu button[aria-label*=\"Action menu\"]",
              "button[aria-label*=\"Action menu\"]" >>
      [] containerType = "ytd-video-renderer" ->
           << "button[aria-label*=\"More actions\"]",
              "ytd-menu-renderer button",
              "#menu button",
              "yt-icon-button button[aria-label*=\"More\"]",
              ".ytd-menu-renderer button" >>
      [] containerType = "ytd-grid-video-renderer" ->
           << "ytd-menu-renderer button",
              "button[aria-label*=\"More actions\"]",
              "#menu button",
              "yt-icon-button button" >>
      [] containerType = "ytd-rich-item-renderer" ->
           << "ytd-menu-renderer button",
              "button[aria-label*=\"More actions\"]",
              "yt-icon-button button" >>
      [] containerType = "ytd-playlist-video-renderer" ->
           << "ytd-menu-renderer button",
              "button[aria-label*=\"More actions\"]",
              "#menu button" >>
      [] OTHER -> <<>>

UNIVERSAL_MENU_SELECTORS ==
    << "button[aria-label*=\"More actions\"]",
       "button[aria-label*=\"Action menu\"]",
       "ytd-menu-renderer button",
       "yt-icon-button button",
       "#menu button",
       ".ytd-menu-renderer button",
       "[aria-label*=\"More actions\"] button",
       "button[aria-haspopup=\"true\"]",
       "[role=\"button\"][aria-label*=\"More\"]",
       "[role=\"button\"][aria-label*=\"Action\"]" >>

\* [...new Set(q)]: each value once, at the place of its first occurrence.
uniqueSelectors(q) ==
    LET keep == SelectSeq(Indexes(q), LAMBDA k : \A j \in 1..(k - 1) : q[j] # q[k])
    IN [i \in 1..Len(keep) |-> q[keep[i]]]

\* The class names and the texts the menu selectors and isValidMenuButton
\* look for, as sequences of characters.
Word ==
    [ dropdownTrigger |-> <<"d", "r", "o", "p", "d", "o", "w", "n", "-", "t",
                            "r", "i", "g", "g", "e", "r">>,
      ytdMenuRenderer |-> <<"y", "t", "d", "-", "m", "e", "n", "u", "-", "r",
                            "e", "n", "d", "e", "r", "e", "r">>,
      styleScope |-> <<"s", "t", "y", "l", "e", "-", "s", "c", "o", "p", "e">>,
      moreActions |-> <<"M", "o", "r", "e", " ", "a", "c", "t", "i", "o", "n", "s">>,
      actionMenu |-> <<"A", "c", "t", "i", "o", "n", " ", "m", "e", "n", "u">>,
      More |-> <<"M", "o", "r", "e">>,
      Action |-> <<"A", "c", "t", "i", "o", "n">>,
      more |-> <<"m", "o", "r", "e">>,
      action |-> <<"a", "c", "t", "i", "o", "n">>,
      menu |-> <<"m", "e", "n", "u">>,
      dropdown |-> <<"d", "r", "o", "p", "d", "o", "w", "n">>,
      settings |-> <<"S", "e", "t", "t", "i", "n", "g", "s">> ]

\* One compound selector: what it asks of the element's tag, id, class
\* list, role, aria-label (a substring) and aria-haspopup; an empty field
\* asks nothing.
Compound(tag) ==
    [tag |-> tag, htmlId |-> "", class |-> <<>>, role |-> "", label |-> <<>>,
     haspopup |-> ""]

\* The compound selectors a menu selector is made of, joined by descendant
\* combinators, outermost first.
ParseSelector(selector) ==
    CASE selector = "#menu yt-icon-button button" ->
           << [Compound("") EXCEPT !.htmlId = "menu"],
              Compound("yt-icon-button"), Compound("button") >>
      [] selector = "ytd-menu-renderer yt-icon-button button" ->
           << Compound("ytd-menu-renderer"), Compound("yt-icon-button"),
              Compound("button") >>
      [] selector = ".dropdown-trigger button" ->
           << [Compound("") EXCEPT !.class = Word.dropdownTrigger],
              Compound("button") >>
      [] selector = "yt-icon-button.dropdown-trigger button" ->
           << [Compound("yt-icon-button") EXCEPT !.class = Word.dropdownTrigger],
              Compound("button") >>
      [] selector = "#menu button[aria-label*=\"Action menu\"]" ->
           << [Compound("") EXCEPT !.htmlId = "menu"],
              [Compound("button") EXCEPT !.label = Word.actionMenu] >>
      [] selector = "button[aria-label*=\"Action menu\"]" ->
           << [Compound("button") EXCEPT !.label = Word.actionMenu] >>
      [] selector = "button[aria-label*=\"More actions\"]" ->
           << [Compound("button") EXCEPT !.label = Word.moreActions] >>
      [] selector = "ytd-menu-renderer button" ->
           << Compound("ytd-menu-renderer"), Compound("button") >>
      [] selector = "#menu button" ->
           << [Compound("") EXCEPT !.htmlId = "menu"], Compound("button") >>
      [] selector = "yt-icon-button button[aria-label*=\"More\"]" ->
           << Compound("yt-icon-button"),
              [Compound("button") EXCEPT !.label = Word.More] >>
      [] selector = ".ytd-menu-renderer button" ->
           << [Compound("") EXCEPT !.class = Word.ytdMenuRenderer],
              Compound("button") >>
      [] selector = "yt-icon-button button" ->
           << Compound("yt-icon-button"), Compound("button") >>
      [] selector = "[aria-label*=\"More actions\"] button" ->
           << [Compound("") EXCEPT !.label = Word.moreActions],
              Compound("button") >>
      [] selector = "button[aria-haspopup=\"true\"]" ->
           << [Compound("button") EXCEPT !.haspopup = "true"] >>
      [] selector = "[role=\"button\"][aria-label*=\"More\"]" ->
           << [Compound("") EXCEPT !.role = "button", !.label = Word.More] >>
      [] selector = "[role=\"button\"][aria-label*=\"Action\"]" ->
           << [Compound("") EXCEPT !.role = "button", !.label = Word.Action] >>

\* The attribute of an element, absent when the element has no such field.
Attr(e, name, absent) == IF Has(e, name) THEN e[name] ELSE absent

CompoundMatches(e, c) ==
    /\ c.tag = "" \/ e.tag = c.tag
    /\ c.htmlId = "" \/ Attr(e, "htmlId", "") = c.htmlId
    /\ c.class = <<>> \/ \E i \in 1..Len(Attr(e, "classList", <<>>)) :
                            e.classList[i] = c.class
    /\ c.role = "" \/ Attr(e, "role", "") = c.role
    /\ c.label = <<>> \/ includes(Attr(e, "ariaLabel", <<>>), c.label)
    /\ c.haspopup = "" \/ Attr(e, "ariaHaspopup", "") = c.haspopup

\* The element at k matches the selector: its last compound matches the
\* element and the compounds before it match ancestors of the element,
\* outermost first.  The ancestors may lie outside the element the query
\* is made on.
Matches(doc, k, selector) ==
    LET parts == ParseSelector(selector)
        RECURSIVE Up(_, _)
        Up(current, i) ==
            IF i = 0 THEN TRUE
            ELSE IF doc[current].parent = Body THEN FALSE
            ELSE IF CompoundMatches(doc[doc[current].parent], parts[i])
                 THEN Up(doc[current].parent, i - 1)
                 ELSE Up(doc[current].parent, i)
    IN CompoundMatches(doc[k], parts[Len(parts)]) /\ Up(k, Len(parts) - 1)

\* An element with what the menu selectors and isValidMenuButton read of
\* it; offsetParent is whether it is rendered.
MenuNode(tag) ==
    Node(tag) @@
    [htmlId |-> "", classList |-> <<>>, role |-> "", offsetParent |-> TRUE,
     disabled |-> FALSE, ariaDisabled |-> "false", ariaLabel |-> <<>>,
     ariaHaspopup |-> "false", svg |-> FALSE, threeDotPath |-> FALSE]

Button(rendered, label) ==
    [MenuNode("button") EXCEPT !.offsetParent = rendered, !.ariaLabel = label]

\* className.includes(word): className is the class list joined by spaces
\* and the words looked for hold no space.
ClassNameIncludes(e, word) ==
    \E i \in 1..Len(Attr(e, "classList", <<>>)) : includes(e.classList[i], word)

isValidMenuButton(button) ==
    IF ~Attr(button, "offsetParent", TRUE) THEN FALSE
    ELSE IF Attr(button, "disabled", FALSE) THEN FALSE
    ELSE IF Attr(button, "ariaDisabled", "false") = "true" THEN FALSE
    ELSE \E ariaLabel \in {Attr(button, "ariaLabel", <<>>)} :
           LET isMenuButton ==
                   \/ includes(toLowerCase(ariaLabel), Word.more)
                   \/ includes(toLowerCase(ariaLabel), Word.action)
                   \/ includes(toLowerCase(ariaLabel), Word.menu)
                   \/ Attr(button, "ariaHaspopup", "") = "true"
                   \/ ClassNameIncludes(button, Word.dropdown)
                   \/ ClassNameIncludes(button, Word.menu)
               hasThreeDotIcon ==
                   Attr(button, "svg", FALSE) /\ Attr(button, "threeDotPath", FALSE)
           IN isMenuButton \/ hasThreeDotIcon

IsButton(e) == e.tag = "button" \/ Attr(e, "role", "") = "button"

\* The elements inside the element at c, in document order.
Inside(doc, c) == SelectSeq(Indexes(doc), LAMBDA k : c \in Ancestors(doc, k))

findMenuButtonBroadSearch(doc, container) ==
    LET broad == FirstWhere(Inside(doc, container),
                   LAMBDA k : IsButton(doc[k]) /\ isValidMenuButton(doc[k]))
        InnerButton(icon) ==
            FirstWhere(Inside(doc, icon), LAMBDA k : doc[k].tag = "button")
        wrapped == FirstWhere(Inside(doc, container),
                     LAMBDA k : /\ doc[k].tag = "yt-icon-button"
                                /\ InnerButton(k) # Null
                                /\ isValidMenuButton(doc[InnerButton(k)]))
    IN IF broad # Null THEN broad
       ELSE IF wrapped # Null THEN InnerButton(wrapped)
       ELSE Null

\* Mutant: the universal selectors come before those of the container type.
allSelectorsUniversalFirst(containerType) ==
    UNIVERSAL_MENU_SELECTORS \o MENU_SELECTORS_BY_TYPE(containerType)

allSelectors(containerType) ==
    MENU_SELECTORS_BY_TYPE(containerType) \o UNIVERSAL_MENU_SELECTORS

\* The first valid button one selector yields inside the container.
SelectorHit(doc, videoElement, selector) ==
    FirstWhere(Inside(doc, videoElement),
      LAMBDA k : Matches(doc, k, selector) /\ isValidMenuButton(doc[k]))

\* Mutant: no broad search after the selectors.
findVideoMenuButtonNoBroadSearch(doc, videoElement) ==
    LET selectors == uniqueSelectors(allSelectors(doc[videoElement].tag))
    IN FirstOver(Len(selectors),
         LAMBDA i : SelectorHit(doc, videoElement, selectors[i]))

findVideoMenuButton(doc, videoElement) ==
    LET selectors == uniqueSelectors(allSelectors(doc[videoElement].tag))
        bySelector ==
            FirstOver(Len(selectors),
              LAMBDA i : SelectorHit(doc, videoElement, selectors[i]))
    IN IF bySelector # Null THEN bySelector
       ELSE findMenuButtonBroadSearch(doc, videoElement)

\* -------------------------------------------------- the automation script
AUTOMATION_CONFIG ==
    [ selectors |->
        [ notInterested |->
            << "ytd-menu-service-item-renderer",
               "tp-yt-paper-item",
               "[aria-label*=\"Not interested\"]" >>,
          tellUsWhy |->
            << "ytd-button-renderer button",
               "button[aria-label*=\"Tell us why\"]",
               "button" >>,
          alreadyWatched |->
            << "ytd-dismissal-reason-text-renderer tp-yt-paper-checkbox",
               "tp-yt-paper-checkbox",
               "[aria-label*=\"already watched\"]" >>,
          submit |->
            << "ytd-button-renderer#submit button",
               "ytd-button-renderer button",
               "button[aria-label*=\"Submit\"]" >> ],
      textPatterns |->
        [ notInterested |->
            << <<"N", "o", "t", " ", "i", "n", "t", "e", "r", "e", "s",
                 "t", "e", "d">>,
               <<"n", "o", "t", " ", "i", "n", "t", "e", "r", "e", "s",
                 "t", "e", "d">> >>,
          tellUsWhy |->
            << <<"T", "e", "l", "l", " ", "u", "s", " ", "w", "h", "y">>,
               <<"t", "e", "l", "l", " ", "u", "s", " ", "w", "h", "y">> >>,
          alreadyWatched |->
            << <<"I", "'", "v", "e", " ", "a", "l", "r", "e", "a", "d",
                 "y", " ", "w", "a", "t", "c", "h", "e", "d">>,
               <<"a", "l", "r", "e", "a", "d", "y", " ", "w", "a", "t",
                 "c", "h", "e", "d">>,
               <<"A", "l", "r", "e", "a", "d", "y", " ", "w", "a", "t",
                 "c", "h", "e", "d">> >>,
          submit |->
            << <<"S", "u", "b", "m", "i", "t">>,
               <<"s", "u", "b", "m", "i", "t">>,
               <<"S", "e", "n", "d">> >> ] ]

\* step.selectors and step.options of a step that waits for name.
StepSelectors(name) == [isArray |-> TRUE, items |-> AUTOMATION_CONFIG.selectors[name]]
StepOptions(name) == [textPattern |-> AUTOMATION_CONFIG.textPatterns[name]]

\* Mutant: the third step is marked optional.
automationStepsOptionalWhy(menuButton) ==
    << [name |-> "Click menu button", action |-> "ok", element |-> menuButton,
        options |-> [validateVisibility |-> FALSE]],
       [name |-> "Click \"Not interested\"", selectors |-> StepSelectors("notInterested"),
        options |-> StepOptions("notInterested"),
        action |-> "ok", delayAfter |-> 300],
       [name |-> "Click \"Tell us why\"", selectors |-> StepSelectors("tellUsWhy"),
        options |-> StepOptions("tellUsWhy"), delayAfter |-> 400,
        required |-> FALSE],
       [name |-> "Click \"Already watched\"", selectors |-> StepSelectors("alreadyWatched"),
        options |-> StepOptions("alreadyWatched"), delayAfter |-> 300],
       [name |-> "Click \"Submit\"", selectors |-> StepSelectors("submit"),
        options |-> StepOptions("submit"), delayAfter |-> 200] >>

\* The steps automateWatchedMarking hands to executeSequence.  The two
\* actions it defines click an element and do not throw.
automationSteps(menuButton) ==
    << [name |-> "Click menu button", action |-> "ok", element |-> menuButton,
        options |-> [validateVisibility |-> FALSE]],
       [name |-> "Click \"Not interested\"", selectors |-> StepSelectors("notInterested"),
        options |-> StepOptions("notInterested"),
        action |-> "ok", delayAfter |-> 300],
       [name |-> "Click \"Tell us why\"", selectors |-> StepSelectors("tellUsWhy"),
        options |-> StepOptions("tellUsWhy"), delayAfter |-> 400],
       [name |-> "Click \"Already watched\"", selectors |-> StepSelectors("alreadyWatched"),
        options |-> StepOptions("alreadyWatched"), delayAfter |-> 300],
       [name |-> "Click \"Submit\"", selectors |-> StepSelectors("submit"),
        options |-> StepOptions("submit"), delayAfter |-> 200] >>

NoLookup == [videoId |-> NoId, videoElement |-> Null, menuButton |-> Null,
             started |-> FALSE]

\* What markVideoAsWatched ends with once the video's element is known.
WithElement(doc, videoId, videoElement) ==
    CHOOSE l \in { [videoId |-> videoId, videoElement |-> videoElement,
                    menuButton |-> menuButton, started |-> menuButton # Null] :
                     menuButton \in {findVideoMenuButton(doc, videoElement)} } :
        TRUE

\* What markVideoAsWatched ends with once the video id is known.
WithVideoId(doc, videoId) ==
    CHOOSE l \in { IF videoElement = Null
                   THEN [NoLookup EXCEPT !.videoId = videoId]
                   ELSE WithElement(doc, videoId, videoElement) :
                     videoElement \in {findVideoElementById(doc, videoId).result} } :
        TRUE

\* Mutant: the request goes on without a video id.
markVideoAsWatchedNoIdCheck(videoUrl, doc) ==
    CHOOSE l \in { WithVideoId(doc, videoId) :
                     videoId \in {extractVideoId(videoUrl)} } : TRUE

\* The three lookups of markVideoAsWatched and whether it goes on to
\* automateWatchedMarking.
markVideoAsWatched(videoUrl, doc) ==
    CHOOSE l \in { IF videoId = NoId THEN NoLookup
                   ELSE WithVideoId(doc, videoId) :
                     videoId \in {extractVideoId(videoUrl)} } : TRUE

\* The part of the page the video finder reads: a video with its link and
\* its menu button, the same with a button that is not rendered, without a
\* button, and a page without the video.
DocWithMenu ==
    << [Node("ytd-video-renderer") EXCEPT !.id = 1],
       [Anchor(Lit.slashWatchQV \o IdX) EXCEPT !.id = 2, !.parent = 1],
       [Button(TRUE, Word.moreActions) EXCEPT !.id = 3, !.parent = 1] >>
DocMenuNotRendered ==
    [DocWithMenu EXCEPT ![3].offsetParent = FALSE]
DocWithoutMenu == SubSeq(DocWithMenu, 1, 2)
ScriptDocs == {DocWithMenu, DocMenuNotRendered, DocWithoutMenu, <<>>}

\* The URLs a request may carry: a watch URL, a page that is no video, none.
RequestUrls == {Lit.origin \o Lit.slashWatchQV \o IdX, Lit.origin \o <<"/">>, <<>>}

\* The part of the page the Waiter reads, once the menu and the dialog of
\* the feedback flow are all shown.
PageFeedback ==
    << El(1, {"ytd-menu-service-item-renderer"}, 10, "block", FALSE,
          AUTOMATION_CONFIG.textPatterns.notInterested[1]),
       El(2, {"ytd-button-renderer button", "button"}, 10, "block", FALSE,
          AUTOMATION_CONFIG.textPatterns.tellUsWhy[1]),
       El(3, {"tp-yt-paper-checkbox"}, 10, "block", FALSE,
          AUTOMATION_CONFIG.textPatterns.alreadyWatched[1]),
       El(4, {"ytd-button-renderer button", "button"}, 10, "block", FALSE,
          AUTOMATION_CONFIG.textPatterns.submit[1]) >>

\* browser.runtime.onMessage with action 'markVideoAsWatched': the call of
\* markVideoAsWatched, run up to the first await of the sequence, then
\* sendResponse({ success: true }).  The promise automateWatchedMarking
\* returns is dropped: nothing awaits it and no handler is attached.
OnMarkVideoAsWatched ==
    /\ request.state = "pending"
    /\ \E l \in {markVideoAsWatched(request.videoUrl, request.doc)} :
          /\ IF l.started THEN Set(StartStep(Cur, 1)) ELSE Set(Cur)
          /\ request' = [request EXCEPT
                           !.state = "handled",
                           !.videoId = l.videoId,
                           !.videoElement = l.videoElement,
                           !.menuButton = l.menuButton,
                           !.started = l.started,
                           !.response = [sent |-> TRUE, success |-> TRUE]]
    /\ UNCHANGED <<steps, call, pages, probe, ctx, run2,
                   inj, opts>>

\* steps holds the array the request's call of automateWatchedMarking
\* builds, from construction on.
ScriptInit ==
    /\ pages = {PageEmpty, PageFeedback}
    /\ dom \in pages
    /\ timers = {}
    /\ attempts = <<>>
    /\ seq = IdleSeq
    /\ trace = <<>>
    /\ call = NoCall
    /\ probe = NoProbe
    /\ ctx = NoCtx
    /\ run2 = NoRun
    /\ inj = NoInj
    /\ opts = NoOpts
    /\ request \in { [state |-> "pending", videoUrl |-> u, doc |-> d,
                      videoId |-> NoId, videoElement |-> Null,
                      menuButton |-> Null, started |-> FALSE,
                      handlers |-> {},
                      response |-> [sent |-> FALSE, success |-> FALSE]] :
                       u \in RequestUrls, d \in ScriptDocs }
    /\ steps = automationSteps(markVideoAsWatched(request.videoUrl,
                                                  request.doc).menuButton)

\* The callback of a polling timer whose attempt has settled returns at
\* once (smart-waiter.js 90) and changes nothing but the set of timers, so
\* the order in which it runs among the other tasks makes no difference to
\* them; here it runs before them.
NoSpentPoll ==
    ~ \E t \in timers : t.kind = "poll" /\ attempts[t.id].resolved

ScriptTimeoutFire == NoSpentPoll /\ TimeoutFire
ScriptDomMutateObserved == NoSpentPoll /\ DomMutateObserved
ScriptDomMutateSilent == NoSpentPoll /\ DomMutateSilent
ScriptActionDelayFire == NoSpentPoll /\ ActionDelayFire
ScriptDelayAfterFire == NoSpentPoll /\ DelayAfterFire

ScriptNext ==
    \/ OnMarkVideoAsWatched
    \/ PollTick
    \/ ScriptTimeoutFire
    \/ ScriptDomMutateObserved
    \/ ScriptDomMutateSilent
    \/ ScriptActionDelayFire
    \/ ScriptDelayAfterFire

ScriptSpec == ScriptInit /\ [][ScriptNext]_vars


\* --------------------------------------------------------------- C15
\* The clicks of the script so far: the step actions that were invoked.
Clicks == SelectSeq(trace, LAMBDA e : e.ev = "action")

ScriptStates ==
    << "Idle", "MenuOpened", "NotInterestedSelected", "ReasonPromptOpen",
       "ReasonSelected", "Submitted" >>

\* The state of the mark-as-watched script.
ScriptState ==
    IF seq.result = "rejected" THEN "Aborted" ELSE ScriptStates[Len(Clicks) + 1]

ScriptForward ==
    /\ Len(Clicks) <= 5
    /\ \A k \in 1..Len(Clicks) : Clicks[k].step = k
    /\ \A i \in 1..Len(steps) :
          Len(SelectSeq(trace, LAMBDA e : e.ev = "start" /\ e.step = i)) <= 1
    /\ \A k \in 1..Len(trace) :
          trace[k].ev = "failed" =>
             /\ k = Len(trace)
             /\ ScriptState = "Aborted"
             /\ seq.pc = "done"
    /\ seq.result = "true" <=> ScriptState = "Submitted"

ScriptStep ==
    /\ Len(Clicks') \in {Len(Clicks), Len(Clicks) + 1}
    /\ ScriptState \in {"Submitted", "Aborted"} =>
          /\ trace' = trace
          /\ seq' = seq
          /\ ~ \E t \in timers' : t.kind \in {"actionDelay", "delayAfter", "timeout"}

\* C15: the script goes through Idle, MenuOpened, NotInterestedSelected,
\* ReasonPromptOpen, ReasonSelected, Submitted one click at a time, the
\* clicks being those of the steps 1, 2, ... in order, no step started
\* twice; a step that fails is the end of the run in Aborted; in Submitted
\* and in Aborted nothing is clicked, started or awaited any more.
C15_LinearScript == [](ScriptForward) /\ [][ScriptStep]_vars

\* The run was aborted by its fourth step after three clicks.
C15_Witness ==
    /\ ScriptState = "Aborted"
    /\ Len(Clicks) = 3
    /\ trace[Len(trace)] = Ev("failed", 4, 0)

\* --------------------------------------------------------------- C16
\* The three lookups of the request all found something.
LookupsOk ==
    LET videoId == extractVideoId(request.videoUrl)
    IN /\ videoId # NoId
       /\ LET videoElement == findVideoElementById(request.doc, videoId).result
          IN /\ videoElement # Null
             /\ findVideoMenuButton(request.doc, videoElement) # Null

\* The sequence has left Idle or left a trace of any kind.
LeftIdle ==
    seq # IdleSeq \/ trace # <<>> \/ timers # {} \/ attempts # <<>>

\* C16: the request leaves Idle only when the video id was extracted and
\* the container and its menu button were found; when one of the lookups
\* fails, no step is started, no action invoked and nothing clicked or
\* awaited, then or later.
C16_StartsOnlyAfterLookups ==
    /\ [](LeftIdle => (request.state = "handled" /\ request.started))
    /\ [][/\ request.state = "handled" => request' = request
          /\ request.state = "pending" /\ request'.state = "handled" =>
                /\ request'.started => LookupsOk
                /\ request'.started =>
                      /\ request'.videoId = extractVideoId(request.videoUrl)
                      /\ request'.videoElement # Null
                      /\ request'.menuButton # Null
                      /\ steps[1].element = request'.menuButton
                /\ ~LookupsOk => ~LeftIdle']_vars

\* The video and its container were found but its menu button is not
\* rendered: the request was answered and nothing was started.
C16_Witness ==
    /\ request.state = "handled"
    /\ request.videoId = IdX
    /\ request.videoElement # Null
    /\ request.menuButton = Null
    /\ ~LeftIdle
    /\ dom = PageFeedback

\* --------------------------------------------------------------- C17
\* C17: when the script fails after it has started, the sender of the
\* request is not told that it succeeded, and the rejected promise of the
\* script has a handler.
C17_AsStated ==
    (request.started /\ seq.result = "rejected") =>
        /\ ~(request.response.sent /\ request.response.success)
        /\ request.handlers # {}

\* ---------------------------------------- the menu button finder by itself
MaxMenuNodes == 2

\* Container tags: two with an entry in the per-type table, one without.
MenuContainerTags ==
    {"ytd-compact-video-renderer", "ytd-video-renderer", "ytd-reel-item-renderer"}

\* The elements the generated containers are filled with: buttons that are
\* valid, not rendered, disabled or unlabelled, a button with the three-dot
\* icon, an element with role="button", and the wrappers the selectors name.
MenuNodeKinds ==
    { Button(TRUE, Word.moreActions),
      Button(FALSE, Word.moreActions),
      [Button(TRUE, Word.moreActions) EXCEPT !.disabled = TRUE],
      Button(TRUE, Word.actionMenu),
      Button(TRUE, <<>>),
      [Button(TRUE, <<>>) EXCEPT !.svg = TRUE, !.threeDotPath = TRUE],
      [MenuNode("div") EXCEPT !.role = "button", !.ariaLabel = Word.menu],
      [MenuNode("yt-icon-button") EXCEPT !.classList = <<Word.styleScope,
                                                         Word.dropdownTrigger>>],
      [MenuNode("ytd-menu-renderer") EXCEPT !.htmlId = "menu"] }

\* A container followed by up to n elements in document order: the parent
\* of a new last element is the body, the element before it or one of that
\* element's ancestors.
RECURSIVE MenuDocsUpTo(_)
MenuDocsUpTo(n) ==
    IF n = 0 THEN {<<[MenuNode(t) EXCEPT !.id = 1]>> : t \in MenuContainerTags}
    ELSE LET shorter == MenuDocsUpTo(n - 1)
         IN shorter \cup
            UNION { { Append(d, [t EXCEPT !.id = Len(d) + 1, !.parent = p]) :
                        t \in MenuNodeKinds,
                        p \in {Body, Len(d)} \cup Ancestors(d, Len(d)) } :
                    d \in {x \in shorter : Len(x) = n} }

MenuProbes ==
    { [fn |-> "findVideoMenuButton", doc |-> d, videoElement |-> 1,
       state |-> "ready", result |-> Null, tried |-> <<>>] :
        d \in MenuDocsUpTo(MaxMenuNodes) }

\* The call, and the selector list it built on the way.
FindVideoMenuButton ==
    /\ probe.fn = "findVideoMenuButton"
    /\ probe.state = "ready"
    /\ probe' = [probe EXCEPT
                   !.state = "done",
                   !.result = findVideoMenuButton(probe.doc, probe.videoElement),
                   !.tried = uniqueSelectors(
                                 allSelectors(probe.doc[probe.videoElement].tag))]
    /\ UNCHANGED <<dom, pages, timers, attempts, steps, seq, trace, call,
                   request, ctx, run2,
                   inj, opts>>

MenuInit ==
    /\ pages = {PageEmpty}
    /\ dom = PageEmpty
    /\ timers = {}
    /\ attempts = <<>>
    /\ steps = <<>>
    /\ seq = IdleSeq
    /\ trace = <<>>
    /\ call = NoCall
    /\ probe \in MenuProbes
    /\ request = NoReq
    /\ ctx = NoCtx
    /\ run2 = NoRun
    /\ inj = NoInj
    /\ opts = NoOpts

MenuNext == FindVideoMenuButton

MenuSpec == MenuInit /\ [][MenuNext]_vars

FindMenuDone == probe.fn = "findVideoMenuButton" /\ probe.state = "done"

Range(q) == {q[i] : i \in 1..Len(q)}

\* The container's tag, the selectors registered for it, and the valid
\* buttons one selector yields inside it, in document order.
MenuTag == probe.doc[probe.videoElement].tag
TypeSelectors == MENU_SELECTORS_BY_TYPE(MenuTag)
ValidHits(selector) ==
    SelectSeq(Inside(probe.doc, probe.videoElement),
      LAMBDA k : /\ Matches(probe.doc, k, selector)
                 /\ isValidMenuButton(probe.doc[k]))

\* --------------------------------------------------------------- C21
\* C21: the selectors findVideoMenuButton tries are those registered for
\* the container's tag, in their order, followed by the universal selectors
\* that are not among them, in their order, each selector once; for a tag
\* without an entry they are the universal selectors alone; and the button
\* returned by a selector is the first valid one of the earliest selector
\* in that list that yields a valid button.
C21_SelectorOrder ==
    FindMenuDone =>
       LET tried == probe.tried
           rest == SelectSeq(UNIVERSAL_MENU_SELECTORS,
                             LAMBDA s : s \notin Range(TypeSelectors))
           hits == {i \in 1..Len(tried) : ValidHits(tried[i]) # <<>>}
       IN /\ tried = TypeSelectors \o rest
          /\ \A i, j \in 1..Len(tried) : tried[i] = tried[j] => i = j
          /\ MenuTag = "ytd-reel-item-renderer" => tried = UNIVERSAL_MENU_SELECTORS
          /\ hits # {} =>
               probe.result =
                 Head(ValidHits(tried[CHOOSE i \in hits : \A h \in hits : i <= h]))

\* The button returned was found by a selector registered for the
\* container's tag, although a selector tried later yields a valid button
\* that comes earlier in the document.
C21_Witness ==
    /\ FindMenuDone
    /\ \E i \in 1..Len(TypeSelectors), j \in 1..Len(probe.tried) :
          /\ i < j
          /\ \A h \in 1..(i - 1) : ValidHits(probe.tried[h]) = <<>>
          /\ ValidHits(probe.tried[i]) # <<>>
          /\ probe.result = Head(ValidHits(probe.tried[i]))
          /\ ValidHits(probe.tried[j]) # <<>>
          /\ Head(ValidHits(probe.tried[j])) < probe.result

\* --------------------------------------------------------------- C22
\* The buttons labelled "More actions" that are rendered and enabled, the
\* elements of any kind that pass isValidMenuButton, and the buttons and
\* role="button" elements among them, inside the container.
MoreActionsButtons ==
    SelectSeq(Inside(probe.doc, probe.videoElement),
      LAMBDA k : /\ probe.doc[k].tag = "button"
                 /\ probe.doc[k].ariaLabel = Word.moreActions
                 /\ probe.doc[k].offsetParent
                 /\ ~probe.doc[k].disabled
                 /\ probe.doc[k].ariaDisabled # "true")
ValidInside ==
    {k \in Range(Inside(probe.doc, probe.videoElement)) :
       isValidMenuButton(probe.doc[k])}
ValidButtonsInside == {k \in ValidInside : IsButton(probe.doc[k])}
TypeSelectorsFail == \A s \in Range(TypeSelectors) : ValidHits(s) = <<>>

\* C22 as stated: a rendered, enabled "More actions" button is returned
\* when the type selectors yield nothing; every result is an element
\* inside the container that passes isValidMenuButton; null is returned
\* only when no element inside the container passes isValidMenuButton.
C22_AsStated ==
    FindMenuDone =>
       /\ (MoreActionsButtons # <<>> /\ TypeSelectorsFail)
             => probe.result = Head(MoreActionsButtons)
       /\ probe.result # Null => probe.result \in ValidInside
       /\ probe.result = Null => ValidInside = {}

\* C22: a rendered, enabled "More actions" button is returned when the
\* type selectors yield nothing; every result is a button or role="button"
\* element inside the container that passes isValidMenuButton; null is
\* returned exactly when no button or role="button" element inside the
\* container passes isValidMenuButton.
C22_ButtonsOnly ==
    FindMenuDone =>
       /\ (MoreActionsButtons # <<>> /\ TypeSelectorsFail)
             => probe.result = Head(MoreActionsButtons)
       /\ probe.result # Null => probe.result \in ValidButtonsInside
       /\ probe.result = Null <=> ValidButtonsInside = {}

\* No selector yields the element with role="button" labelled "menu", the
\* only valid one in the container: the broad scan returns it.
C22_Witness ==
    /\ FindMenuDone
    /\ \A i \in 1..Len(probe.tried) : ValidHits(probe.tried[i]) = <<>>
    /\ probe.result # Null
    /\ probe.doc[probe.result].tag = "div"

\* ------------------------------------------- the right-click context menu
\* The channel between the content script, which detects the video under a
\* right-click, and the background script, which owns the menu item.
MaxRightClicks == 3

\* null and the empty string alike: no URL.
NoUrl == <<>>

\* A URL of the embed form, whose id stops at a question mark as well.
constructEmbedUrl(videoId) == Lit.origin \o Lit.embed \o videoId

constructWatchUrl(videoId) == Lit.origin \o Lit.slashWatchQV \o videoId

HomeUrl == Lit.origin \o <<"/">>

\* What a right-click may detect: one of two videos, or nothing.
DetectableUrls == {constructWatchUrl(IdX), constructWatchUrl(IdZ), NoUrl}

\* The pages the tab may show: the home page and the watch page of A1.
TabUrls == {HomeUrl, constructWatchUrl(IdX)}

YoutubeWatch ==
    <<"y", "o", "u", "t", "u", "b", "e", ".", "c", "o", "m", "/", "w", "a",
      "t", "c", "h">>

\* The end of handleRightClick, videoUrl being what the search found: the
\* slot is overwritten and a found URL is sent to the background script.
handleRightClick(c, videoUrl) ==
    [c EXCEPT !.lastRightClickedVideoUrl = videoUrl,
              !.outbox = IF videoUrl # NoUrl THEN Append(@, videoUrl) ELSE @]

\* Mutant: the callback stores the page's address.
observerCallbackStoresHref(c) ==
    IF c.href # c.lastRightClickedVideoUrl
    THEN [c EXCEPT !.lastRightClickedVideoUrl = c.href]
    ELSE c

\* The MutationObserver callback of the content script.
observerCallback(c) ==
    IF c.href # c.lastRightClickedVideoUrl
    THEN [c EXCEPT !.lastRightClickedVideoUrl = NoUrl]
    ELSE c

\* runtime.onMessage of the background script, action setContextVideoUrl.
onSetContextVideoUrl(c, videoUrl) == [c EXCEPT !.contextVideoUrl = videoUrl]

\* handleVideoSummarization(videoUrl) for the menu click numbered click.
Summarize(c, click, videoUrl) ==
    [c EXCEPT !.outcomes = Append(@, [click |-> click, url |-> videoUrl,
                                      how |-> "summarized"])]

\* The "Could not detect video URL" notification, and the end of a handler
\* that does neither: no URL is summarized.
Notify(c, click) ==
    [c EXCEPT !.outcomes = Append(@, [click |-> click, url |-> NoUrl,
                                      how |-> "notification"])]
Nothing(c, click) ==
    [c EXCEPT !.outcomes = Append(@, [click |-> click, url |-> NoUrl,
                                      how |-> "nothing"])]

\* contextMenus.onClicked for the item summarize-video: the stored URL when
\* there is one, else a getContextVideoUrl message to the tab; the stored
\* URL is cleared.
onClicked(c, tabUrl) ==
    LET click == Len(c.clicks)
        c1 == IF c.contextVideoUrl = NoUrl
              THEN [c EXCEPT !.gets = Append(@, [click |-> click,
                                                 tabUrl |-> tabUrl])]
              ELSE Summarize(c, click, c.contextVideoUrl)
    IN [c1 EXCEPT !.contextVideoUrl = NoUrl]

\* The content script answers getContextVideoUrl with its slot and the
\* background script takes the answer, or falls back on the address the
\* tab had when the item was clicked.
onGetContextVideoUrlAnswered(c, get) ==
    LET response == c.lastRightClickedVideoUrl
    IN IF response # NoUrl THEN Summarize(c, get.click, response)
       ELSE IF includes(get.tabUrl, YoutubeWatch)
            THEN Summarize(c, get.click, get.tabUrl)
            ELSE Notify(c, get.click)

\* The getContextVideoUrl message is rejected (no content script receives
\* it): the catch handler falls back on the tab's address on a watch page
\* and does nothing elsewhere.
onGetContextVideoUrlRejected(c, get) ==
    IF includes(get.tabUrl, YoutubeWatch)
    THEN Summarize(c, get.click, get.tabUrl)
    ELSE Nothing(c, get.click)

\* The user right-clicks: the contextmenu event reaches the content script
\* and the browser opens the menu.
RightClick ==
    /\ ctx.state = "on"
    /\ Len(ctx.detected) < MaxRightClicks
    /\ \E videoUrl \in DetectableUrls :
          ctx' = [handleRightClick(ctx, videoUrl) EXCEPT
                    !.detected = Append(@, videoUrl), !.menuOpen = TRUE]
    /\ UNCHANGED <<dom, pages, timers, attempts, steps, seq, trace, call,
                   probe, request, run2,
                   inj, opts>>

\* The user picks "Summarize with Gemini" in the open menu.
MenuClick ==
    /\ ctx.state = "on"
    /\ ctx.menuOpen
    /\ ctx' = onClicked([ctx EXCEPT
                           !.menuOpen = FALSE,
                           !.clicks = Append(@, [expected |-> ctx.detected[Len(ctx.detected)],
                                                 tabUrl |-> ctx.href])],
                        ctx.href)
    /\ UNCHANGED <<dom, pages, timers, attempts, steps, seq, trace, call,
                   probe, request, run2,
                   inj, opts>>

\* The user closes the menu without picking the item.
MenuDismiss ==
    /\ ctx.state = "on"
    /\ ctx.menuOpen
    /\ ctx' = [ctx EXCEPT !.menuOpen = FALSE]
    /\ UNCHANGED <<dom, pages, timers, attempts, steps, seq, trace, call,
                   probe, request, run2,
                   inj, opts>>

\* The oldest setContextVideoUrl message reaches the background script.
DeliverSetContextVideoUrl ==
    /\ ctx.state = "on"
    /\ ctx.outbox # <<>>
    /\ ctx' = onSetContextVideoUrl([ctx EXCEPT !.outbox = Tail(@)],
                                   Head(ctx.outbox))
    /\ UNCHANGED <<dom, pages, timers, attempts, steps, seq, trace, call,
                   probe, request, run2,
                   inj, opts>>

\* The oldest getContextVideoUrl message is answered.
AnswerGetContextVideoUrl ==
    /\ ctx.state = "on"
    /\ ctx.gets # <<>>
    /\ ctx' = onGetContextVideoUrlAnswered([ctx EXCEPT !.gets = Tail(@)],
                                           Head(ctx.gets))
    /\ UNCHANGED <<dom, pages, timers, attempts, steps, seq, trace, call,
                   probe, request, run2,
                   inj, opts>>

\* The oldest getContextVideoUrl message finds no receiver in the tab (the
\* page is being reloaded, or was open before the extension was loaded).
RejectGetContextVideoUrl ==
    /\ ctx.state = "on"
    /\ ctx.gets # <<>>
    /\ ctx' = onGetContextVideoUrlRejected([ctx EXCEPT !.gets = Tail(@)],
                                           Head(ctx.gets))
    /\ UNCHANGED <<dom, pages, timers, attempts, steps, seq, trace, call,
                   probe, request, run2, inj, opts>>

\* The page's content changes and the observer of the content script runs.
PageMutation ==
    /\ ctx.state = "on"
    /\ ctx' = observerCallback(ctx)
    /\ ctx' # ctx
    /\ UNCHANGED <<dom, pages, timers, attempts, steps, seq, trace, call,
                   probe, request, run2,
                   inj, opts>>

\* The tab shows another page without reloading the content script.
Navigate ==
    /\ ctx.state = "on"
    /\ \E u \in TabUrls \ {ctx.href} : ctx' = [ctx EXCEPT !.href = u, !.menuOpen = FALSE]
    /\ UNCHANGED <<dom, pages, timers, attempts, steps, seq, trace, call,
                   probe, request, run2,
                   inj, opts>>

ContextInit ==
    /\ pages = {PageEmpty}
    /\ dom = PageEmpty
    /\ timers = {}
    /\ attempts = <<>>
    /\ steps = <<>>
    /\ seq = IdleSeq
    /\ trace = <<>>
    /\ call = NoCall
    /\ probe = NoProbe
    /\ request = NoReq
    /\ run2 = NoRun
    /\ inj = NoInj
    /\ opts = NoOpts
    /\ ctx \in { [state |-> "on", href |-> u,
                  lastRightClickedVideoUrl |-> NoUrl, contextVideoUrl |-> NoUrl,
                  outbox |-> <<>>, gets |-> <<>>, outcomes |-> <<>>,
                  detected |-> <<>>, clicks |-> <<>>, menuOpen |-> FALSE] :
                   u \in TabUrls }

ContextNext ==
    \/ RightClick
    \/ MenuClick
    \/ MenuDismiss
    \/ DeliverSetContextVideoUrl
    \/ AnswerGetContextVideoUrl
    \/ RejectGetContextVideoUrl
    \/ PageMutation
    \/ Navigate

ContextSpec == ContextInit /\ [][ContextNext]_vars

\* What the most recent contextmenu event detected.
LastDetected ==
    IF ctx.detected = <<>> THEN NoUrl ELSE ctx.detected[Len(ctx.detected)]

Fallback(tabUrl) == IF includes(tabUrl, YoutubeWatch) THEN tabUrl ELSE NoUrl

\* C24 as stated: the video summarized for a click on the menu item is the
\* one the most recent right-click before that click detected, or the
\* fallback of that click when it detected none.
C24_AsStated ==
    ctx.state = "on" =>
       \A k \in 1..Len(ctx.outcomes) :
          LET click == ctx.clicks[ctx.outcomes[k].click]
          IN ctx.outcomes[k].url =
                IF click.expected # NoUrl THEN click.expected
                ELSE Fallback(click.tabUrl)

\* ------------------------------------------- two mark-as-watched requests
\* Each call of executeSequence has its own loop index, element and pending
\* delay; the page, the Waiter's attempts and their timers are shared.  seq,
\* trace and the delay timers in timers belong to the run of the first
\* request, run2 holds those of the second.
\* How many times the page changes while the two runs last, and how many
\* calls of waitForElement the two runs have made by then at most.
MaxPageChanges == 1
MaxAttemptsBeforeChange == 2

IsDelay(t) == t.kind \in {"actionDelay", "delayAfter"}
DelaysOf(T) == {t \in T : IsDelay(t)}
WaiterTimersOf(T) == {t \in T : ~IsDelay(t)}

\* The state as the second run sees it after r, and as the first run sees
\* it after r2.
AsRun2(r) ==
    [r EXCEPT !.timers = WaiterTimersOf(r.timers) \cup run2.delays,
              !.seq = run2.seq, !.trace = run2.trace]
AsRun1(r2) ==
    [r2 EXCEPT !.timers = WaiterTimersOf(r2.timers) \cup DelaysOf(timers),
               !.seq = seq, !.trace = trace]

\* The steps whose action was invoked in the part of the trace after n.
RECURSIVE ClicksAfter(_, _, _)
ClicksAfter(run, tr, n) ==
    IF n >= Len(tr) THEN <<>>
    ELSE (IF tr[n + 1].ev = "action" THEN <<[run |-> run, step |-> tr[n + 1].step]>>
          ELSE <<>>) \o ClicksAfter(run, tr, n + 1)

\* r1 and r2 are the two runs after a task, r2 computed after r1.
SetBoth(r1, r2) ==
    /\ dom' = r2.dom
    /\ attempts' = r2.attempts
    /\ timers' = DelaysOf(r1.timers) \cup WaiterTimersOf(r2.timers)
    /\ seq' = r1.seq
    /\ trace' = r1.trace
    /\ run2' = [run2 EXCEPT
                  !.seq = r2.seq, !.trace = r2.trace,
                  !.delays = DelaysOf(r2.timers),
                  !.changes = IF r2.dom # dom THEN @ + 1 ELSE @,
                  !.log = @ \o ClicksAfter(1, r1.trace, Len(trace))
                            \o ClicksAfter(2, r2.trace, Len(run2.trace))]

\* After a task of the Waiter: the continuation of each run whose wait has
\* settled.
SetAfterWaiter(r) ==
    \E r1 \in {Resume(r)} : SetBoth(r1, Resume(AsRun2(r1)))

\* After a task of the first run, and after one of the second.
SetAfterRun1(r1) == SetBoth(r1, AsRun2(r1))
SetAfterRun2(r2) == SetBoth(AsRun1(r2), r2)

\* Mutant: a new request clears the timers of the run before it.
EarlierRunCancelled(s) == [s EXCEPT !.timers = {}]

\* What a new request does to the run of an earlier one: markVideoAsWatched
\* and automateWatchedMarking hold no reference to it.
EarlierRun(s) == s

FirstRequest ==
    /\ request.state = "pending"
    /\ \E l \in {markVideoAsWatched(request.videoUrl, request.doc)} :
          /\ l.started
          /\ SetAfterRun1(StartStep(Cur, 1))
          /\ request' = [request EXCEPT
                           !.state = "handled",
                           !.videoId = l.videoId,
                           !.videoElement = l.videoElement,
                           !.menuButton = l.menuButton,
                           !.started = l.started,
                           !.response = [sent |-> TRUE, success |-> TRUE]]
    /\ UNCHANGED <<steps, call, pages, probe, ctx,
                   inj, opts>>

\* The same request again, while the run of the first is pending.
SecondRequest ==
    /\ request.state = "handled"
    /\ seq.pc \in {"waiting", "actionDelay", "delayAfter"}
    /\ run2.seq.pc = "idle"
    /\ \E l \in {markVideoAsWatched(request.videoUrl, request.doc)} :
          /\ l.started
          /\ \E e \in {EarlierRun(Cur)} :
             \E r2 \in {StartStep(AsRun2(e), 1)} :
                SetBoth([r2 EXCEPT !.timers = WaiterTimersOf(r2.timers)
                                              \cup DelaysOf(e.timers),
                                   !.seq = e.seq, !.trace = e.trace],
                        r2)
    /\ UNCHANGED <<steps, call, pages, probe, ctx, request,
                   inj, opts>>

RunsTimeoutFire ==
    /\ NoSpentPoll
    /\ \E t \in timers :
          /\ t.kind = "timeout"
          /\ SetAfterWaiter(TimeoutCallback(Cur, t.id))
    /\ UNCHANGED <<steps, call, pages, probe, ctx, request,
                   inj, opts>>

RunsPollTick ==
    /\ \E t \in timers :
          /\ t.kind = "poll"
          /\ SetAfterWaiter(PollCallback(Cur, t.id, t))
    /\ UNCHANGED <<steps, call, pages, probe, ctx, request,
                   inj, opts>>

RunsDomMutateObserved ==
    /\ NoSpentPoll
    /\ run2.changes < MaxPageChanges
    /\ Len(attempts) <= MaxAttemptsBeforeChange
    /\ \E p \in pages \ {dom} :
          SetAfterWaiter(NotifyObservers([Cur EXCEPT !.dom = p], 1))
    /\ UNCHANGED <<steps, call, pages, probe, ctx, request,
                   inj, opts>>

ActionDelayFire1 ==
    /\ NoSpentPoll
    /\ \E t \in timers :
          /\ t.kind = "actionDelay"
          /\ SetAfterRun1(RunAction([Cur EXCEPT !.timers = timers \ {t}], t.id))
    /\ UNCHANGED <<steps, call, pages, probe, ctx, request,
                   inj, opts>>

DelayAfterFire1 ==
    /\ NoSpentPoll
    /\ \E t \in timers :
          /\ t.kind = "delayAfter"
          /\ SetAfterRun1(
               StartStep([Cur EXCEPT
                            !.timers = timers \ {t},
                            !.trace = Append(trace, Ev("delayDone", t.id, t.ms))],
                         t.id + 1))
    /\ UNCHANGED <<steps, call, pages, probe, ctx, request,
                   inj, opts>>

ActionDelayFire2 ==
    /\ NoSpentPoll
    /\ \E t \in run2.delays :
          /\ t.kind = "actionDelay"
          /\ SetAfterRun2(RunAction([AsRun2(Cur) EXCEPT !.timers = @ \ {t}], t.id))
    /\ UNCHANGED <<steps, call, pages, probe, ctx, request,
                   inj, opts>>

DelayAfterFire2 ==
    /\ NoSpentPoll
    /\ \E t \in run2.delays :
          /\ t.kind = "delayAfter"
          /\ SetAfterRun2(
               StartStep([AsRun2(Cur) EXCEPT
                            !.timers = @ \ {t},
                            !.trace = Append(@, Ev("delayDone", t.id, t.ms))],
                         t.id + 1))
    /\ UNCHANGED <<steps, call, pages, probe, ctx, request,
                   inj, opts>>

RunsInit ==
    /\ pages = {PageEmpty, PageFeedback}
    /\ dom \in pages
    /\ timers = {}
    /\ attempts = <<>>
    /\ seq = IdleSeq
    /\ trace = <<>>
    /\ call = NoCall
    /\ probe = NoProbe
    /\ ctx = NoCtx
    /\ inj = NoInj
    /\ opts = NoOpts
    /\ run2 = [state |-> "on", seq |-> IdleSeq, trace |-> <<>>, delays |-> {},
               log |-> <<>>, changes |-> 0]
    /\ request = [state |-> "pending",
                  videoUrl |-> constructWatchUrl(IdX), doc |-> DocWithMenu,
                  videoId |-> NoId, videoElement |-> Null,
                  menuButton |-> Null, started |-> FALSE, handlers |-> {},
                  response |-> [sent |-> FALSE, success |-> FALSE]]
    /\ steps = automationSteps(markVideoAsWatched(request.videoUrl,
                                                  request.doc).menuButton)

RunsNext ==
    \/ FirstRequest
    \/ SecondRequest
    \/ RunsTimeoutFire
    \/ RunsPollTick
    \/ RunsDomMutateObserved
    \/ ActionDelayFire1
    \/ DelayAfterFire1
    \/ ActionDelayFire2
    \/ DelayAfterFire2

RunsSpec == RunsInit /\ [][RunsNext]_vars


\* --------------------------------------------------------------- C25
\* The attempt a call from outside started, of which attempt a is a retry.
RECURSIVE RootOf(_, _)
RootOf(atts, a) == IF atts[a].parent = 0 THEN a ELSE RootOf(atts, atts[a].parent)

\* A pending run has what will wake it: the timer of its delay, or, while
\* it awaits the Waiter, the timeout timer of an attempt of its call.
RunAwake(sq, delays) ==
    CASE sq.pc = "actionDelay" ->
           \E t \in delays : t.kind = "actionDelay" /\ t.id = sq.i
      [] sq.pc = "delayAfter" ->
           \E t \in delays : t.kind = "delayAfter" /\ t.id = sq.i
      [] sq.pc = "waiting" ->
           \E t \in timers :
              /\ t.kind = "timeout"
              /\ ~attempts[t.id].resolved
              /\ RootOf(attempts, t.id) = sq.wait
      [] OTHER -> TRUE

\* C25: the arrival of a second mark-as-watched request while the run of
\* the first is pending leaves that run as it was (its position, its trace,
\* its timers and the Waiter's attempts), and from then on each of the two
\* runs that is pending has a timer that will continue it.
C25_EarlierRunKept ==
    /\ [](run2.state = "on" =>
             /\ RunAwake(seq, DelaysOf(timers))
             /\ RunAwake(run2.seq, run2.delays))
    /\ [][(run2.state = "on" /\ run2.seq.pc = "idle" /\ run2'.seq.pc # "idle") =>
             /\ seq' = seq
             /\ trace' = trace
             /\ timers \subseteq timers'
             /\ SubSeq(attempts', 1, Len(attempts)) = attempts]_vars

\* The second request arrived while the first run waited for the Waiter;
\* the two runs clicked in turn on the page: run 1 its step 1, run 2 its
\* step 1, then run 1 a later step while run 2 is still pending.
C25_Witness ==
    /\ run2.state = "on"
    /\ run2.seq.pc \in {"waiting", "actionDelay", "delayAfter"}
    /\ Len(run2.log) >= 3
    /\ run2.log[1] = [run |-> 1, step |-> 1]
    /\ run2.log[2] = [run |-> 2, step |-> 1]
    /\ run2.log[3].run = 1 /\ run2.log[3].step > 1


\* --------------------------------------------------------------- C26
\* C26 as stated: in every invocation of waitForElement the effective
\* timeout and maxRetries are the values options gives, whatever
\* non-negative integer they are, and the values of the global
\* configuration only when options does not give them.
C26_AsStated ==
    call.state # "none" =>
       \A a \in 1..Len(attempts) :
          LET options == attempts[a].options
              config == attempts[a].config
          IN /\ config.timeout = IF Has(options, "timeout") THEN options.timeout
                                 ELSE elementWait
             /\ config.maxRetries = IF Has(options, "maxRetries")
                                    THEN options.maxRetries
                                    ELSE maxRetriesCfg


\* --------------------------------------------------------------- C27
\* A timer that was set fires (setTimeout), and the caller makes the call;
\* the page is under no obligation to change.
WaiterFairSpec ==
    /\ WaiterSpec
    /\ WF_vars(CallWaitForElement)
    /\ WF_vars(TimeoutFire)
    /\ WF_vars(PollTick)

\* The call from outside is pending; the page holds an element the Locator
\* of the call accepts.
CallPending == call.state = "called" /\ attempts[1].promise = "pending"
ValidPresent ==
    /\ call.state = "called"
    /\ findBestElement(dom, selectorArray(call.selectors), attempts[1].config) # Null

\* C27 as stated: once a valid element is present while the call is still
\* pending (the timeout of its final attempt has not fired) and stays
\* present, the call eventually resolves, and no step rejects it.
C27_AsStated ==
    /\ [](CallPending /\ []ValidPresent => <>(attempts[1].promise = "fulfilled"))
    /\ [][CallPending /\ ValidPresent => attempts'[1].promise # "rejected"]_vars


\* --------------------------------------------------------------- C28
\* The promise of attempt a is fulfilled in this step.
NewlyFulfilled(a) ==
    /\ attempts'[a].promise = "fulfilled"
    /\ (a > Len(attempts) \/ attempts[a].promise # "fulfilled")

\* C28: in every step that fulfils the promise of an invocation of
\* waitForElement, by the immediate check, the observer, a poll or a retry,
\* the value is an element of the page the Locator ran on that
\* validateElement accepts under the invocation's config; and when the
\* invocation is a retry, the invocation that started it is fulfilled with
\* the same element.
C28_ResolvesValid ==
    [][call.state # "none" =>
        \A a \in 1..Len(attempts') :
           NewlyFulfilled(a) =>
              /\ \E k \in 1..Len(dom') :
                    /\ dom'[k].id = attempts'[a].value
                    /\ validateElement(dom'[k], attempts'[a].config)
              /\ attempts'[a].parent # 0 =>
                    /\ attempts'[attempts'[a].parent].promise = "fulfilled"
                    /\ attempts'[attempts'[a].parent].value = attempts'[a].value]_vars

\* The first attempt timed out, its retry found the element in a poll, and
\* the original call is fulfilled with that element.
C28_Witness ==
    /\ call.state = "called"
    /\ Len(attempts) >= 2
    /\ attempts[2].parent = 1
    /\ attempts[2].effects = <<"poll">>
    /\ attempts[1].effects = <<"timeout">>
    /\ attempts[1].promise = "fulfilled"
    /\ attempts[1].value = attempts[2].value
    /\ attempts[1].value # Null


\* --------------------------------------------------------------- C29
\* Sequences whose steps differ in the pause they ask for: a pause of 0 ms,
\* none given, 300 ms after a step that waits for its element.
PauseTemplates ==
    { [name |-> "zero", element |-> 1, delayAfter |-> 0],
      [name |-> "none", element |-> 1],
      [name |-> "click", selectors |-> SelA, options |-> [maxRetries |-> 1],
       delayAfter |-> 300] }

PauseInit ==
    /\ pages = {PageEmpty, PageShown}
    /\ dom \in pages
    /\ timers = {}
    /\ attempts = <<>>
    /\ steps \in SeqsUpTo(PauseTemplates, MaxSteps)
    /\ seq = IdleSeq
    /\ trace = <<>>
    /\ call = NoCall
    /\ probe = NoProbe
    /\ request = NoReq
    /\ ctx = NoCtx
    /\ run2 = NoRun
    /\ inj = NoInj
    /\ opts = NoOpts

PauseSpec == PauseInit /\ [][Next]_vars

\* C29 as stated: the action of a step that is not the last is followed by
\* a pause of step.delayAfter ms when the step gives a value, whatever
\* non-negative integer it is, and of 200 ms when it gives none, and the
\* next step starts only when the pause is over; the action of the last
\* step is followed by no pause.
C29_AsStated ==
    \A k \in 1..Len(trace) :
       LET i == trace[k].step
       IN /\ (trace[k].ev = "action" /\ i < Len(steps)) =>
                /\ k < Len(trace)
                /\ trace[k + 1] =
                     Ev("delayAfter", i,
                        IF Has(steps[i], "delayAfter") THEN steps[i].delayAfter
                        ELSE DefaultDelayAfter)
                /\ \A m \in (k + 2)..Len(trace) :
                      trace[m].ev = "start" =>
                         \E d \in (k + 2)..(m - 1) :
                            trace[d].ev = "delayDone" /\ trace[d].step = i
          /\ (trace[k].ev = "delayAfter") => i < Len(steps)


\* --------------------------------------------------------------- C30
\* The action events of step i in the trace.
ActionsOf(i) == {k \in 1..Len(trace) : trace[k] = Ev("action", i, 0)}

\* C30: for a step that supplies its element the Waiter is never called (no
\* wait event, no attempt made for the step); the action of any step comes
\* right after the step's actionDelay pause, whose timer has fired; and no
\* step has its action invoked twice.
C30_PauseThenActionOnce ==
    seq.pc # "idle" =>
       /\ \A i \in 1..Len(steps) :
             /\ (Has(steps[i], "element") /\ steps[i].element # Null) =>
                   /\ ~ \E k \in 1..Len(trace) : trace[k] = Ev("wait", i, 0)
                   /\ ~ \E a \in 1..Len(attempts) : attempts[a].owner = i
             /\ Cardinality(ActionsOf(i)) <= 1
             /\ \A k \in ActionsOf(i) :
                   /\ k > 1
                   /\ trace[k - 1].ev = "actionDelay"
                   /\ trace[k - 1].step = i
                   /\ ~ \E t \in timers : t.kind = "actionDelay" /\ t.id = i

\* A sequence of a step with its element supplied and a step that waited
\* for its element has finished; the action of each was invoked.
C30_Witness ==
    /\ seq.result = "true"
    /\ Len(steps) = 2
    /\ Has(steps[1], "element")
    /\ ~Has(steps[2], "element")
    /\ ActionsOf(1) # {}
    /\ ActionsOf(2) # {}
    /\ \E a \in 1..Len(attempts) : attempts[a].owner = 2


\* --------------------------------------------------------------- C31
\* The configuration table with its enableRetries flag set either way
\* (AUTOMATION_CONFIG.strategies); no code of the Waiter reads the flag.
FlagsInit ==
    /\ pages = Pages
    /\ dom \in {PageEmpty, PageShown}
    /\ timers = {}
    /\ attempts = <<>>
    /\ steps = <<>>
    /\ seq = IdleSeq
    /\ trace = <<>>
    /\ call \in { [state |-> "idle", selectors |-> sel, options |-> o,
                   strategies |-> [enableRetries |-> e]] :
                    sel \in CallSelectors,
                    o \in { MkOptions({}, m, {}, {}) : m \in Maybe(MaxRetriesValues) },
                    e \in BOOLEAN }
    /\ probe = NoProbe
    /\ request = NoReq
    /\ ctx = NoCtx
    /\ run2 = NoRun
    /\ inj = NoInj
    /\ opts = NoOpts

FlagsSpec == FlagsInit /\ [][WaiterNext]_vars

\* C31 as stated: with enableRetries false an attempt that times out is not
\* retried, and the call rejects after that single attempt.
C31_AsStated ==
    (call.state = "called" /\ ~call.strategies.enableRetries) =>
       /\ Len(attempts) <= 1
       /\ (Len(attempts) = 1 /\ attempts[1].effects = <<"timeout">>) =>
             attempts[1].promise = "rejected"


\* --------------------------------------------------------------- C32
\* C32 as stated: whenever the action of a step that waited for its element
\* is invoked, the element the Waiter resolved with is on the page and
\* validateElement accepts it under the config of the step's options.
C32_AsStated ==
    [][(/\ seq.pc = "actionDelay"
        /\ ~Has(steps[seq.i], "element")
        /\ Len(trace') > Len(trace)
        /\ trace'[Len(trace) + 1] = Ev("action", seq.i, 0)) =>
          \E k \in 1..Len(dom) :
             /\ dom[k].id = seq.element
             /\ validateElement(dom[k],
                                BuildConfig(IF Has(steps[seq.i], "options")
                                            THEN steps[seq.i].options
                                            ELSE <<>>))]_vars


\* ------------------------------------------- sidebar header injection
\* inj is the background script's header injection: the listeners
\* registered on webRequest.onBeforeSendHeaders (each closure is named by
\* the number of the call of setupGeminiListener that made it), the pending
\* storage reads of prepareGeminiWithHeader, the 30-second timers, and the
\* number of X-Firefox-Gemini headers each request to Gemini was sent with.
MaxSummaries == 3
MaxGeminiRequests == 2
VideoUrls == {constructWatchUrl(IdX), constructWatchUrl(IdZ)}

\* browser.webRequest.onBeforeSendHeaders.removeListener inside try/catch:
\* removing a function that is not registered does nothing.
safeRemoveListener(j, listener) ==
    [j EXCEPT !.listeners = {l \in @ : l.id # listener}]

\* setupGeminiListener (background.js 149-181): a new closure, the removal
\* of that same closure, its registration, its 30-second timer.
setupGeminiListener(j, promptText) ==
    LET listener == j.made + 1
        j1 == safeRemoveListener([j EXCEPT !.made = listener], listener)
    IN [j1 EXCEPT !.listeners = @ \cup {[id |-> listener, prompt |-> promptText]},
                  !.cleanups = @ \cup {listener}]

\* prepareGeminiWithHeader up to its storage read (background.js 187-189);
\* called by handleVideoSummarization and by the page action.
prepareGeminiWithHeader(j, videoUrl) ==
    [j EXCEPT !.asked = @ + 1,
              !.reads = @ \cup {[n |-> j.asked + 1, videoUrl |-> videoUrl]}]

SummarizeVideo ==
    /\ inj.state = "sidebar"
    /\ inj.asked < MaxSummaries
    /\ \E videoUrl \in VideoUrls : inj' = prepareGeminiWithHeader(inj, videoUrl)
    /\ UNCHANGED <<dom, pages, timers, attempts, steps, seq, trace, call, probe,
                   request, ctx, run2, opts>>

\* The storage read settles; fulfilled or rejected, the prompt is built
\* with the video URL and setupGeminiListener is called with it.
StorageSettles ==
    /\ inj.state = "sidebar"
    /\ \E r \in inj.reads :
          inj' = setupGeminiListener([inj EXCEPT !.reads = @ \ {r}], r.videoUrl)
    /\ UNCHANGED <<dom, pages, timers, attempts, steps, seq, trace, call, probe,
                   request, ctx, run2, opts>>

\* The 30-second timer of a call of setupGeminiListener.
ListenerTimeout ==
    /\ inj.state = "sidebar"
    /\ \E listener \in inj.cleanups :
          inj' = safeRemoveListener([inj EXCEPT !.cleanups = @ \ {listener}],
                                    listener)
    /\ UNCHANGED <<dom, pages, timers, attempts, steps, seq, trace, call, probe,
                   request, ctx, run2, opts>>

\* The sidebar sends a request to gemini.google.com: every registered
\* listener is called with the headers the one before it returned and
\* pushes its header.
GeminiRequest ==
    /\ inj.state = "sidebar"
    /\ Len(inj.sent) < MaxGeminiRequests
    /\ inj' = [inj EXCEPT !.sent = Append(@, Cardinality(inj.listeners))]
    /\ UNCHANGED <<dom, pages, timers, attempts, steps, seq, trace, call, probe,
                   request, ctx, run2, opts>>

SidebarInit ==
    /\ pages = {PageEmpty}
    /\ dom = PageEmpty
    /\ timers = {}
    /\ attempts = <<>>
    /\ steps = <<>>
    /\ seq = IdleSeq
    /\ trace = <<>>
    /\ call = NoCall
    /\ probe = NoProbe
    /\ request = NoReq
    /\ ctx = NoCtx
    /\ run2 = NoRun
    /\ opts = NoOpts
    /\ inj = [state |-> "sidebar", asked |-> 0, made |-> 0, reads |-> {},
              listeners |-> {}, cleanups |-> {}, sent |-> <<>>]

SidebarNext ==
    \/ SummarizeVideo
    \/ StorageSettles
    \/ ListenerTimeout
    \/ GeminiRequest

SidebarSpec == SidebarInit /\ [][SidebarNext]_vars

\* --------------------------------------------------------------- C33
\* C33 as stated: at most one header-injection listener is registered at
\* any time, and no request to Gemini is sent with more than one
\* X-Firefox-Gemini header.
C33_AsStated ==
    inj.state = "sidebar" =>
       /\ Cardinality(inj.listeners) <= 1
       /\ \A k \in 1..Len(inj.sent) : inj.sent[k] <= 1


\* --------------------------------------------------------------- C34
\* The outcomes of the menu click numbered k.
OutcomesOf(k) == {o \in 1..Len(ctx.outcomes) : ctx.outcomes[o].click = k}

\* C34 as stated: every click on the menu item whose handling has ended had
\* exactly one outcome, a call of handleVideoSummarization with a URL or
\* the notification, also when the getContextVideoUrl message was not
\* answered.
C34_AsStated ==
    ctx.state = "on" =>
       \A k \in 1..Len(ctx.clicks) :
          (\A g \in 1..Len(ctx.gets) : ctx.gets[g].click # k) =>
             /\ Cardinality({o \in OutcomesOf(k) :
                               ctx.outcomes[o].how \in {"summarized",
                                                        "notification"}}) = 1
             /\ \A o \in OutcomesOf(k) :
                   ctx.outcomes[o].how = "summarized" =>
                      ctx.outcomes[o].url # NoUrl


\* --------------------------------------------------------------- C35
\* C35 as stated: the error a call from outside is rejected with states as
\* its number of attempts the number of attempts made for the call, and
\* lists the selectors of the call.
C35_AsStated ==
    call.state # "none" =>
       \A r \in Tops :
          attempts[r].promise = "rejected" =>
             /\ attempts[r].error.n = Cardinality(Chain(r))
             /\ attempts[r].error.selectors = selectorArray(attempts[r].selectors)


\* ------------------------------------------------------ the options page
\* opts is the options page with the settings in storage.sync: the text of
\* the prompt field, the state of the checkbox, what is stored, and one
\* record for every run of saveSettings.
MaxSaves == 2

Placeholder == <<"{", "v", "i", "d", "e", "o", "U", "r", "l", "}">>

\* window.EXTENSION_CONSTANTS.DEFAULT_PROMPT, shortened: a text that holds
\* the placeholder.
DEFAULT_PROMPT == <<"S", "u", "m", " ">> \o Placeholder

\* String.prototype.trim for the white space of the model, the blank.
RECURSIVE trimStart(_)
trimStart(t) == IF t # <<>> /\ Head(t) = " " THEN trimStart(Tail(t)) ELSE t
RECURSIVE trimEnd(_)
trimEnd(t) ==
    IF t # <<>> /\ t[Len(t)] = " " THEN trimEnd(SubSeq(t, 1, Len(t) - 1)) ELSE t
trim(t) == trimEnd(trimStart(t))

\* What the user may have typed into the prompt field.
FieldTexts ==
    { <<>>, <<" ", " ">>, DEFAULT_PROMPT, <<" ">> \o DEFAULT_PROMPT,
      <<"T", "l", "d", "r">>,
      <<"T", "l", "d", "r", " ">> \o Placeholder,
      <<"{", "v", "i", "d", "e", "o", "u", "r", "l", "}">> }

\* browser.storage.sync.set(items): the write may fail, which leaves the
\* storage as it was.
storageSet(o, items, ok) ==
    IF ok THEN [o EXCEPT !.stored = items] ELSE o

\* Mutant: the answer to the warning is not looked at.
saveSettingsIgnoresCancel(o, continueWithoutPlaceholder, ok) ==
    LET promptTemplate == trim(o.field)
        templateToSave == IF promptTemplate # <<>> THEN promptTemplate
                          ELSE DEFAULT_PROMPT
        warned == templateToSave # DEFAULT_PROMPT
                  /\ ~includes(templateToSave, Placeholder)
        run == [templateToSave |-> templateToSave, warned |-> warned,
                continueWithoutPlaceholder |-> continueWithoutPlaceholder,
                set |-> TRUE, ok |-> ok]
    IN storageSet([o EXCEPT !.saves = Append(@, run)],
                  [promptTemplate |-> templateToSave,
                   autoMarkWatched |-> o.checked],
                  ok)

\* saveSettings (part_001 425-454); continueWithoutPlaceholder is the
\* user's answer to the warning, used only when the warning is shown.
saveSettings(o, continueWithoutPlaceholder, ok) ==
    LET promptTemplate == trim(o.field)
        autoMarkWatched == o.checked
        templateToSave == IF promptTemplate # <<>> THEN promptTemplate
                          ELSE DEFAULT_PROMPT
        warned == templateToSave # DEFAULT_PROMPT
                  /\ ~includes(templateToSave, Placeholder)
        run == [templateToSave |-> templateToSave, warned |-> warned,
                continueWithoutPlaceholder |-> continueWithoutPlaceholder,
                set |-> ~(warned /\ ~continueWithoutPlaceholder), ok |-> ok]
    IN IF warned /\ ~continueWithoutPlaceholder
       THEN [o EXCEPT !.saves = Append(@, run)]
       ELSE storageSet([o EXCEPT !.saves = Append(@, run)],
                       [promptTemplate |-> templateToSave,
                        autoMarkWatched |-> autoMarkWatched],
                       ok)

\* resetSettings (part_001 459-474), confirmed by the user.
resetSettings(o, ok) ==
    storageSet([o EXCEPT !.field = DEFAULT_PROMPT, !.checked = TRUE],
               [promptTemplate |-> DEFAULT_PROMPT, autoMarkWatched |-> TRUE],
               ok)

\* The user edits the prompt field.
EditPrompt ==
    /\ opts.state = "options"
    /\ \E t \in FieldTexts \ {opts.field} : opts' = [opts EXCEPT !.field = t]
    /\ UNCHANGED <<dom, pages, timers, attempts, steps, seq, trace, call, probe,
                   request, ctx, run2, inj>>

\* The user ticks or unticks the checkbox.
ToggleAutoMarkWatched ==
    /\ opts.state = "options"
    /\ opts' = [opts EXCEPT !.checked = ~@]
    /\ UNCHANGED <<dom, pages, timers, attempts, steps, seq, trace, call, probe,
                   request, ctx, run2, inj>>

\* The save button or Ctrl+S.
SaveSettings ==
    /\ opts.state = "options"
    /\ Len(opts.saves) < MaxSaves
    /\ \E continueWithoutPlaceholder \in BOOLEAN, ok \in BOOLEAN :
          opts' = saveSettings(opts, continueWithoutPlaceholder, ok)
    /\ UNCHANGED <<dom, pages, timers, attempts, steps, seq, trace, call, probe,
                   request, ctx, run2, inj>>

\* The reset button, the question answered with OK.
ResetSettings ==
    /\ opts.state = "options"
    /\ \E ok \in BOOLEAN : opts' = resetSettings(opts, ok)
    /\ opts' # opts
    /\ UNCHANGED <<dom, pages, timers, attempts, steps, seq, trace, call, probe,
                   request, ctx, run2, inj>>

\* The page after loadSettings, on a storage that holds the default
\* settings or settings saved before.
OptionsInit ==
    /\ pages = {PageEmpty}
    /\ dom = PageEmpty
    /\ timers = {}
    /\ attempts = <<>>
    /\ steps = <<>>
    /\ seq = IdleSeq
    /\ trace = <<>>
    /\ call = NoCall
    /\ probe = NoProbe
    /\ request = NoReq
    /\ ctx = NoCtx
    /\ run2 = NoRun
    /\ inj = NoInj
    /\ opts \in { [state |-> "options", field |-> t, checked |-> a,
                   stored |-> [promptTemplate |-> t, autoMarkWatched |-> a],
                   saves |-> <<>>] :
                    t \in {DEFAULT_PROMPT, <<"T", "l", "d", "r">>},
                    a \in BOOLEAN }

OptionsNext ==
    \/ EditPrompt
    \/ ToggleAutoMarkWatched
    \/ SaveSettings
    \/ ResetSettings

OptionsSpec == OptionsInit /\ [][OptionsNext]_vars

\* --------------------------------------------------------------- C36
\* C36: a run of saveSettings calls storage.set only when the template to
\* save is the default, holds the {videoUrl} placeholder, or the user
\* confirmed the warning; and a run in which the user cancelled the warning
\* leaves the stored prompt template and the stored autoMarkWatched as they
\* were.
C36_SaveGuarded ==
    [][(opts.state = "options" /\ Len(opts'.saves) > Len(opts.saves)) =>
         LET run == opts'.saves[Len(opts'.saves)]
         IN /\ run.set =>
                  \/ run.templateToSave = DEFAULT_PROMPT
                  \/ includes(run.templateToSave, Placeholder)
                  \/ (run.warned /\ run.continueWithoutPlaceholder)
            /\ opts'.stored # opts.stored => run.set
            /\ (run.warned /\ ~run.continueWithoutPlaceholder) =>
                  /\ opts'.stored.promptTemplate = opts.stored.promptTemplate
                  /\ opts'.stored.autoMarkWatched = opts.stored.autoMarkWatched]_vars

\* After a custom prompt with the placeholder was saved with the checkbox
\* unticked, the user typed a prompt without the placeholder, ticked the
\* checkbox, pressed save and cancelled the warning: what was stored stays.
C36_Witness ==
    /\ opts.state = "options"
    /\ Len(opts.saves) = 2
    /\ opts.saves[1].set /\ opts.saves[1].ok
    /\ opts.saves[2].warned
    /\ ~opts.saves[2].continueWithoutPlaceholder
    /\ opts.stored.promptTemplate = opts.saves[1].templateToSave
    /\ opts.stored.promptTemplate # opts.saves[2].templateToSave
    /\ opts.stored.promptTemplate # DEFAULT_PROMPT
    /\ opts.stored.autoMarkWatched # opts.checked


\* ------------------------------------------- tab-based header injection
\* inj for the injector that opens Gemini in a tab (part_004): the calls of
\* openGeminiWithHeader (call n makes listener n and tab n), the registered
\* listeners, the tabs whose tabs.create promise is pending, the
\* pendingRequests map (its keys), the 10-second timers, and for every tab
\* the number of its requests and of the headers it received.
MaxOpens == 3
MaxTabRequests == 2

\* One listener called for a request of tab tabId (part_004 16-35).
TabListener(j, listener, tabId) ==
    IF tabId \in j.pendingRequests
    THEN LET j1 == [j EXCEPT !.headers[tabId] = @ + 1,
                             !.pendingRequests = @ \ {tabId}]
         IN IF j1.pendingRequests = {}
            THEN [j1 EXCEPT !.listeners = @ \ {listener}]
            ELSE j1
    ELSE j

\* The listeners registered when the request is made, called in the order
\* of their registration.
RECURSIVE CallListeners(_, _, _)
CallListeners(j, ls, tabId) ==
    IF ls = {} THEN j
    ELSE LET l == CHOOSE x \in ls : \A y \in ls : x <= y
         IN CallListeners(TabListener(j, l, tabId), ls \ {l}, tabId)

\* openGeminiWithHeader up to tabs.create (part_004 11-50).
openGeminiWithHeader(j) ==
    LET n == j.calls + 1
    IN [j EXCEPT !.calls = n,
                 !.listeners = IF j.pendingRequests = {} THEN @ \cup {n} ELSE @,
                 !.creating = @ \cup {n},
                 !.requests = @ \o <<0>>,
                 !.headers = @ \o <<0>>]

\* The then callback of tabs.create for call n (part_004 50-62).
onTabCreated(j, n) ==
    [j EXCEPT !.creating = @ \ {n},
              !.pendingRequests = @ \cup {n},
              !.cleanups = @ \cup {n}]

\* The 10-second timer of call n (part_004 55-62).
cleanupTimeout(j, n) ==
    LET j0 == [j EXCEPT !.cleanups = @ \ {n}]
    IN IF n \in j0.pendingRequests
       THEN LET j1 == [j0 EXCEPT !.pendingRequests = @ \ {n}]
            IN IF j1.pendingRequests = {}
               THEN [j1 EXCEPT !.listeners = @ \ {n}]
               ELSE j1
       ELSE j0

\* A content script sends openGemini.
OpenGemini ==
    /\ inj.state = "tabs"
    /\ inj.calls < MaxOpens
    /\ inj' = openGeminiWithHeader(inj)
    /\ UNCHANGED <<dom, pages, timers, attempts, steps, seq, trace, call, probe,
                   request, ctx, run2, opts>>

TabCreated ==
    /\ inj.state = "tabs"
    /\ \E n \in inj.creating : inj' = onTabCreated(inj, n)
    /\ UNCHANGED <<dom, pages, timers, attempts, steps, seq, trace, call, probe,
                   request, ctx, run2, opts>>

\* A tab that was opened (its promise settled or not) sends a request to
\* gemini.google.com.
TabRequest ==
    /\ inj.state = "tabs"
    /\ \E tabId \in 1..inj.calls :
          /\ inj.requests[tabId] < MaxTabRequests
          /\ inj' = CallListeners([inj EXCEPT !.requests[tabId] = @ + 1],
                                  inj.listeners, tabId)
    /\ UNCHANGED <<dom, pages, timers, attempts, steps, seq, trace, call, probe,
                   request, ctx, run2, opts>>

CleanupTimeout ==
    /\ inj.state = "tabs"
    /\ \E n \in inj.cleanups : inj' = cleanupTimeout(inj, n)
    /\ UNCHANGED <<dom, pages, timers, attempts, steps, seq, trace, call, probe,
                   request, ctx, run2, opts>>

TabsInit ==
    /\ pages = {PageEmpty}
    /\ dom = PageEmpty
    /\ timers = {}
    /\ attempts = <<>>
    /\ steps = <<>>
    /\ seq = IdleSeq
    /\ trace = <<>>
    /\ call = NoCall
    /\ probe = NoProbe
    /\ request = NoReq
    /\ ctx = NoCtx
    /\ run2 = NoRun
    /\ opts = NoOpts
    /\ inj = [state |-> "tabs", calls |-> 0, listeners |-> {}, creating |-> {},
              pendingRequests |-> {}, cleanups |-> {}, requests |-> <<>>,
              headers |-> <<>>]

TabsNext ==
    \/ OpenGemini
    \/ TabCreated
    \/ TabRequest
    \/ CleanupTimeout

TabsSpec == TabsInit /\ [][TabsNext]_vars

\* --------------------------------------------------------------- C37
\* C37 as stated: a listener is registered only while a tab is pending (its
\* creation or its first request): in every step that empties
\* pendingRequests, by a served request or by a cleanup, no listener stays
\* registered; and no tab receives the header on more than one request.
C37_AsStated ==
    /\ [](inj.state = "tabs" =>
            /\ (inj.listeners # {} =>
                   inj.pendingRequests # {} \/ inj.creating # {})
            /\ \A tabId \in 1..inj.calls : inj.headers[tabId] <= 1)
    /\ [][(inj.state = "tabs" /\ inj.pendingRequests # {}
           /\ inj'.pendingRequests = {}) => inj'.listeners = {}]_vars


\* ------------------------------------------------ the URL round trip
\* probe for one video id taken through constructWatchUrl and read back by
\* extractVideoId, as markVideoAsWatched reads the URL the right-click
\* detection produced.
MaxIdLen == 3
IdChars == {"A", "v", "=", "?", "/", "&", "#"}

RECURSIVE IdsUpTo(_)
IdsUpTo(n) ==
    IF n = 0 THEN {<<>>}
    ELSE LET shorter == IdsUpTo(n - 1)
         IN shorter \cup {Append(s, c) : s \in shorter, c \in IdChars}

Chars(s) == {s[k] : k \in 1..Len(s)}

RoundTripInit ==
    /\ pages = {PageEmpty}
    /\ dom = PageEmpty
    /\ timers = {}
    /\ attempts = <<>>
    /\ steps = <<>>
    /\ seq = IdleSeq
    /\ trace = <<>>
    /\ call = NoCall
    /\ request = NoReq
    /\ ctx = NoCtx
    /\ run2 = NoRun
    /\ inj = NoInj
    /\ opts = NoOpts
    /\ \E id \in IdsUpTo(MaxIdLen) \ {<<>>} :
          probe = [fn |-> "extractVideoId", state |-> "detected", id |-> id]

\* The detection returns constructWatchUrl(videoId).
ConstructWatchUrl ==
    /\ probe.fn = "extractVideoId"
    /\ probe.state = "detected"
    /\ probe' = [fn |-> "extractVideoId", state |-> "url", id |-> probe.id,
                 videoUrl |-> constructWatchUrl(probe.id)]
    /\ UNCHANGED <<dom, pages, timers, attempts, steps, seq, trace, call,
                   request, ctx, run2, inj, opts>>

\* markVideoAsWatched reads the id back from the URL.
ExtractVideoId ==
    /\ probe.fn = "extractVideoId"
    /\ probe.state = "url"
    /\ probe' = [fn |-> "extractVideoId", state |-> "done", id |-> probe.id,
                 videoUrl |-> probe.videoUrl,
                 videoId |-> extractVideoId(probe.videoUrl)]
    /\ UNCHANGED <<dom, pages, timers, attempts, steps, seq, trace, call,
                   request, ctx, run2, inj, opts>>

RoundTripNext ==
    \/ ConstructWatchUrl
    \/ ExtractVideoId

RoundTripSpec == RoundTripInit /\ [][RoundTripNext]_vars

\* --------------------------------------------------------------- C38
RoundTripDone == probe.fn = "extractVideoId" /\ probe.state = "done"

\* C38: extractVideoId inverts constructWatchUrl: for every non-empty id
\* holding neither '&' nor '#', the id read back from
\* constructWatchUrl(id) is the id, so markVideoAsWatched works on the id
\* the right-click detection found.
C38_RoundTrip ==
    (RoundTripDone /\ Chars(probe.id) \cap {"&", "#"} = {}) =>
       probe.videoId = probe.id

\* An id holding the text of the first pattern itself, and a question
\* mark, read back whole.
C38_Witness ==
    /\ RoundTripDone
    /\ probe.id = <<"?", "v", "=">>
    /\ probe.videoId = probe.id

====
